---------------------------- MODULE Spec2Model ----------------------------
(***************************************************************************)
(* A model of the persistent B-tree node of src/src/nodes/btree.rs:        *)
(* Node::insert / split, Node::remove / remove_index with its seven        *)
(* RemoveActions, lookup / lookup_mut, and the copy-on-write discipline of *)
(* the child handles (Ref::make_mut, clone_ref), Node::min / max, and the  *)
(* iterators Iter, ConsumingIter and DiffIter.                             *)
(*                                                                         *)
(* Child handles are addresses into a heap of reference-counted nodes; a   *)
(* node that is mutated "in place" is written back at its address, so a    *)
(* mutation that skipped make_mut would be seen by every other holder.     *)
(* Indices are 0-based as in the source (At, SetAt, ...).                  *)
(***************************************************************************)
EXTENDS Integers, Sequences, FiniteSets, TLC

VARIABLES root, heap, snap, snapObs, model, res, aborted, phase, script, ops,
          iter, seen

vars == <<root, heap, snap, snapObs, model, res, aborted, phase, script, ops,
          iter, seen>>

---------------------------------------------------------------------------
(* Sizes.  The source fixes NodeSize = U64; the model runs the same code   *)
(* with the fan-out of the documented scenarios (B = 4, M = 2).            *)
NODE_SIZE == 4

MEDIAN == (NODE_SIZE + 1) \div 2

(* Largest key of the exhaustive exploration. *)
MaxKey == 5

(* Number of distinct payloads stored under a key. *)
MaxVal == 2

(* Operations applied to the root while a clone of it is alive. *)
MaxCowOps == 1

(* Keys inserted by a scripted build. *)
ScriptLen == 23

(* Free operations applied after the scripted build. *)
MaxDeepOps == 1

(* Keys inserted before a scripted build is thinned out. *)
ThinLen == 17

Keys == 1..MaxKey

Vals == 1..MaxVal

DeepKeys == 1..(ScriptLen + 1)

AllKeys == Keys \cup DeepKeys

---------------------------------------------------------------------------
(* Option<Ref<Node>>: None is the null address. *)
None == 0

NoVal == <<0, 0>>

NoNode == [count |-> 0, keys |-> <<>>, children |-> <<>>]

(* let x = v in K(x): v is computed once. *)
With(v, K(_)) == CHOOSE y \in {K(x) : x \in {v}} : TRUE

(* Bounded sequence (SizedChunk), 0-based. *)
At(s, i) == s[i + 1]

SetAt(s, i, x) == [s EXCEPT ![i + 1] = x]

InsertAt(s, i, x) == SubSeq(s, 1, i) \o <<x>> \o SubSeq(s, i + 1, Len(s))

RemoveAt(s, i) == SubSeq(s, 1, i) \o SubSeq(s, i + 2, Len(s))

Take(s, n) == SubSeq(s, 1, n)

Drop(s, n) == SubSeq(s, n + 1, Len(s))

Last(s) == s[Len(s)]

Front(s) == SubSeq(s, 1, Len(s) - 1)

(* BTreeValue for a map entry <<key, payload>>: ordered by the key. *)
KeyOf(e) == e[1]

cmp_keys(e, key) ==
    IF KeyOf(e) < key THEN "Less" ELSE IF KeyOf(e) = key THEN "Equal" ELSE "Greater"

cmp_values(a, b) == cmp_keys(a, KeyOf(b))

(* Binary search over a sorted slice: Ok(index) or Err(insertion index). *)
search_key(keys, key) ==
    IF \E i \in 1..Len(keys) : cmp_keys(keys[i], key) = "Equal"
    THEN [ok |-> TRUE,
          index |-> (CHOOSE i \in 1..Len(keys) : cmp_keys(keys[i], key) = "Equal") - 1]
    ELSE [ok |-> FALSE,
          index |-> Cardinality({i \in 1..Len(keys) : cmp_keys(keys[i], key) = "Less"})]

search_value(keys, value) == search_key(keys, KeyOf(value))

---------------------------------------------------------------------------
(* The context threaded through an operation: the heap of shared nodes,    *)
(* the abort (panic) reached, if any, the number of nodes cloned, and the  *)
(* number of calls of remove_index that returned Update.                   *)
Ctx(h) == [h |-> h, ab |-> "none", nc |-> 0, up |-> 0]

Abort(ctx, why) == IF ctx.ab = "none" THEN [ctx EXCEPT !.ab = why] ELSE ctx

NodeOf(ctx, id) == ctx.h[id].node

StoreNode(ctx, id, node) ==
    IF id \in DOMAIN ctx.h THEN [ctx EXCEPT !.h[id].node = node] ELSE ctx

FreshId(h) == CHOOSE i \in 1..(Cardinality(DOMAIN h) + 1) :
                  i \notin DOMAIN h /\ \A j \in 1..(i - 1) : j \in DOMAIN h

(* Ref::from(node) *)
Alloc(ctx, node) ==
    LET id == FreshId(ctx.h)
    IN [ctx |-> [ctx EXCEPT !.h = ctx.h @@ (id :> [rc |-> 1, node |-> node])],
        id |-> id]

(* Clone of a handle. *)
IncRc(ctx, id) ==
    IF id = None THEN ctx ELSE [ctx EXCEPT !.h[id].rc = @ + 1]

RECURSIVE IncAll(_, _)
IncAll(ctx, ids) ==
    IF ids = <<>> THEN ctx ELSE IncAll(IncRc(ctx, Head(ids)), Tail(ids))

(* Drop of a handle: the node is freed, and its children dropped, when the *)
(* last handle goes.                                                       *)
RECURSIVE DropRef(_, _)
RECURSIVE DropAll(_, _)
DropRef(ctx, id) ==
    IF id = None \/ id \notin DOMAIN ctx.h THEN ctx
    ELSE IF ctx.h[id].rc > 1 THEN [ctx EXCEPT !.h[id].rc = @ - 1]
    ELSE DropAll([ctx EXCEPT !.h = [i \in DOMAIN ctx.h \ {id} |-> ctx.h[i]]],
                 ctx.h[id].node.children)

DropAll(ctx, ids) ==
    IF ids = <<>> THEN ctx ELSE DropAll(DropRef(ctx, Head(ids)), Tail(ids))

(* Drop of an owned node. *)
DropNode(ctx, node) == DropAll(ctx, node.children)

(* Ref::make_mut: clone the node when the handle is shared. *)
MakeMut(ctx, id) ==
    IF ctx.h[id].rc = 1 THEN [ctx |-> ctx, id |-> id]
    ELSE Alloc(IncAll([ctx EXCEPT !.h[id].rc = @ - 1, !.nc = @ + 1],
                      ctx.h[id].node.children),
               ctx.h[id].node)

(* clone_ref: unwrap the node when the handle is unique, clone otherwise. *)
CloneRef(ctx, id) ==
    IF ctx.h[id].rc = 1
    THEN [ctx |-> [ctx EXCEPT !.h = [i \in DOMAIN ctx.h \ {id} |-> ctx.h[i]]],
          node |-> ctx.h[id].node]
    ELSE [ctx |-> IncAll([ctx EXCEPT !.h[id].rc = @ - 1, !.nc = @ + 1],
                         ctx.h[id].node.children),
          node |-> ctx.h[id].node]

---------------------------------------------------------------------------
(* Node *)
Default == [count |-> 0, keys |-> <<>>, children |-> <<None>>]

has_room(node) == Len(node.keys) < NODE_SIZE

(* Faulty variant: a node counts as too small one key later. *)
too_small_lax(node) == Len(node.keys) < MEDIAN - 1

(* Faulty variant: a node with exactly MEDIAN keys counts as too small. *)
too_small_at_median(node) == Len(node.keys) <= MEDIAN

too_small(node) == Len(node.keys) < MEDIAN

is_leaf(node) == At(node.children, 0) = None

maybe_len(ctx, id) == IF id = None THEN 0 ELSE NodeOf(ctx, id).count

RECURSIVE sum_up_children(_, _)
sum_up_children(ctx, children) ==
    IF children = <<>> THEN 0
    ELSE maybe_len(ctx, Head(children)) + sum_up_children(ctx, Tail(children))

(* Faulty variant: the new root loses its right child. *)
from_split_half(ctx, left, median, right) ==
    LET aL == Alloc(ctx, left)
    IN [ctx |-> aL.ctx,
        node |-> [count |-> left.count + right.count + 1,
                  keys |-> <<median>>,
                  children |-> <<aL.id, None>>]]

(* The owner's new root for a Split(left, median, right). *)
from_split(ctx, left, median, right) ==
    With(Alloc(ctx, left), LAMBDA aL :
    With(Alloc(aL.ctx, right), LAMBDA aR :
      [ctx |-> aR.ctx,
       node |-> [count |-> left.count + right.count + 1,
                 keys |-> <<median>>,
                 children |-> <<aL.id, aR.id>>]]))

RECURSIVE lookup(_, _, _)
lookup(h, node, key) ==
    IF node.keys = <<>> THEN <<>>
    ELSE With(search_key(node.keys, key), LAMBDA sr :
           IF sr.ok THEN <<At(node.keys, sr.index)>>
           ELSE IF At(node.children, sr.index) = None THEN <<>>
           ELSE lookup(h, h[At(node.children, sr.index)].node, key))

(* Results of insert and remove: a tag, a value, and up to two owned nodes. *)
Res(tag, val, n1, n2) == [tag |-> tag, val |-> val, left |-> n1, right |-> n2]

Ret(ctx, self, r) == [ctx |-> ctx, self |-> self, res |-> r]

Aborted(ctx, self) == Ret(ctx, self, Res("Abort", NoVal, NoNode, NoNode))

OptRef(ctx, opt) ==
    IF opt = <<>> THEN [ctx |-> ctx, id |-> None] ELSE Alloc(ctx, opt[1])

(* Faulty variant: the two halves change places. *)
SplitOfSwapped(ctx, self, left_keys, left_children, median, right_keys, right_children) ==
    Ret(ctx, [self EXCEPT !.keys = <<>>, !.children = <<>>],
        Res("Split", median,
            [count |-> MEDIAN + sum_up_children(ctx, right_children),
             keys |-> right_keys, children |-> right_children],
            [count |-> MEDIAN + sum_up_children(ctx, left_children),
             keys |-> left_keys, children |-> left_children]))

(* Faulty variant: the halves count their own keys only. *)
SplitOfKeysOnly(ctx, self, left_keys, left_children, median, right_keys, right_children) ==
    Ret(ctx, [self EXCEPT !.keys = <<>>, !.children = <<>>],
        Res("Split", median,
            [count |-> MEDIAN, keys |-> left_keys, children |-> left_children],
            [count |-> MEDIAN, keys |-> right_keys, children |-> right_children]))

(* The Split that split returns; self is left drained. *)
SplitOf(ctx, self, left_keys, left_children, median, right_keys, right_children) ==
    Ret(ctx, [self EXCEPT !.keys = <<>>, !.children = <<>>],
        Res("Split", median,
            [count |-> MEDIAN + sum_up_children(ctx, left_children),
             keys |-> left_keys, children |-> left_children],
            [count |-> MEDIAN + sum_up_children(ctx, right_children),
             keys |-> right_keys, children |-> right_children]))

split(ctx, self, value, ins_left, ins_right) ==
    With(OptRef(ctx, ins_left), LAMBDA aL :
    With(OptRef(aL.ctx, ins_right), LAMBDA aR :
    With(search_value(self.keys, value), LAMBDA sr :
    With(sr.index, LAMBDA index :
      IF sr.ok THEN Aborted(Abort(aR.ctx, "unwrap_err"), self)
      ELSE IF index < MEDIAN THEN
        With(SetAt(self.children, index, aL.id), LAMBDA children :
        With(Drop(Drop(self.keys, index), MEDIAN - index - 1), LAMBDA keys1 :
          SplitOf(DropRef(aR.ctx, At(self.children, index)), self,
                  Take(self.keys, index) \o <<value>>
                    \o Take(Drop(self.keys, index), MEDIAN - index - 1),
                  Take(children, index + 1) \o <<aR.id>>
                    \o Take(Drop(children, index + 1), MEDIAN - index - 1),
                  Head(keys1),
                  Tail(keys1),
                  Drop(Drop(children, index + 1), MEDIAN - index - 1))))
      ELSE IF index > MEDIAN THEN
        With(SetAt(self.children, index, aL.id), LAMBDA children :
        With(Tail(Drop(self.keys, MEDIAN)), LAMBDA keys1 :
        With(Drop(children, MEDIAN + 1), LAMBDA children1 :
          SplitOf(DropRef(aR.ctx, At(self.children, index)), self,
                  Take(self.keys, MEDIAN),
                  Take(children, MEDIAN + 1),
                  Head(Drop(self.keys, MEDIAN)),
                  Take(keys1, index - MEDIAN - 1) \o <<value>>
                    \o Drop(keys1, index - MEDIAN - 1),
                  Take(children1, index - MEDIAN) \o <<aR.id>>
                    \o Drop(children1, index - MEDIAN)))))
      ELSE
        With(Drop(self.children, MEDIAN), LAMBDA children1 :
          SplitOf(DropRef(aR.ctx, At(children1, 0)), self,
                  Take(self.keys, MEDIAN),
                  Take(self.children, MEDIAN) \o <<aL.id>>,
                  value,
                  Drop(self.keys, MEDIAN),
                  SetAt(children1, 0, aR.id)))))))

(* Faulty variant: a replaced value is counted as an added one. *)
InsertedBelowCounting(ctx, self, index, id, r, value) ==
    CASE r.res.tag = "Abort" -> Aborted(ctx, self)
      [] r.res.tag \in {"Replaced", "Added"} ->
           Ret(ctx, [self EXCEPT !.count = @ + 1], r.res)
      [] r.res.tag = "Split" ->
           IF has_room(self) THEN
             With(Alloc(ctx, r.res.left), LAMBDA aL :
             With(Alloc(DropRef(aL.ctx, id), r.res.right), LAMBDA aR :
               Ret(aR.ctx,
                   [count |-> self.count + 1,
                    keys |-> InsertAt(self.keys, index, r.res.val),
                    children |-> InsertAt(SetAt(self.children, index, aL.id),
                                          index + 1, aR.id)],
                   Res("Added", NoVal, NoNode, NoNode))))
           ELSE split(ctx, self, r.res.val, <<r.res.left>>, <<r.res.right>>)
      [] OTHER -> Aborted(Abort(ctx, "unreachable"), self)

(* insert, after the recursive insert into child index returned r. *)
InsertedBelow(ctx, self, index, id, r, value) ==
    CASE r.res.tag = "Abort" -> Aborted(ctx, self)
      [] r.res.tag = "Replaced" -> Ret(ctx, self, r.res)
      [] r.res.tag = "Added" ->
           Ret(ctx, [self EXCEPT !.count = @ + 1],
               Res("Added", NoVal, NoNode, NoNode))
      [] r.res.tag = "Split" ->
           IF has_room(self) THEN
             With(Alloc(ctx, r.res.left), LAMBDA aL :
             With(Alloc(DropRef(aL.ctx, id), r.res.right), LAMBDA aR :
               Ret(aR.ctx,
                   [count |-> self.count + 1,
                    keys |-> InsertAt(self.keys, index, r.res.val),
                    children |-> InsertAt(SetAt(self.children, index, aL.id),
                                          index + 1, aR.id)],
                   Res("Added", NoVal, NoNode, NoNode))))
           ELSE split(ctx, self, r.res.val, <<r.res.left>>, <<r.res.right>>)
      [] OTHER -> Aborted(Abort(ctx, "unreachable"), self)

RECURSIVE insert(_, _, _)
insert(ctx, self, value) ==
    IF self.keys = <<>> THEN
        Ret(ctx, [count |-> self.count + 1, keys |-> <<value>>,
                  children |-> Append(self.children, None)],
            Res("Added", NoVal, NoNode, NoNode))
    ELSE
    With(search_value(self.keys, value), LAMBDA sr :
    With(sr.index, LAMBDA index :
      IF sr.ok THEN
        Ret(ctx, [self EXCEPT !.keys = SetAt(@, index, value)],
            Res("Replaced", At(self.keys, index), NoNode, NoNode))
      ELSE IF At(self.children, index) = None THEN
        IF has_room(self) THEN
          Ret(ctx, [count |-> self.count + 1,
                    keys |-> InsertAt(self.keys, index, value),
                    children |-> InsertAt(self.children, index + 1, None)],
              Res("Added", NoVal, NoNode, NoNode))
        ELSE split(ctx, self, value, <<>>, <<>>)
      ELSE
        With(MakeMut(ctx, At(self.children, index)), LAMBDA mm :
        With(insert(mm.ctx, NodeOf(mm.ctx, mm.id), value), LAMBDA r :
          InsertedBelow(StoreNode(r.ctx, mm.id, r.self),
                        [self EXCEPT !.children = SetAt(@, index, mm.id)],
                        index, mm.id, r, value)))))

---------------------------------------------------------------------------
(* Faulty variant: the merged count forgets the middle key. *)
merge_uncounted(ctx, middle, left, right) ==
    [ctx |-> ctx,
     node |-> [count |-> left.count + right.count,
               keys |-> Append(left.keys, middle) \o right.keys,
               children |-> left.children \o right.children]]

(* Node::merge: left.keys ++ middle ++ right.keys in one bounded sequence. *)
merge(ctx, middle, left, right) ==
    LET keys == Append(left.keys, middle) \o right.keys
        children == left.children \o right.children
        full == \/ Len(left.keys) >= NODE_SIZE
                \/ Len(keys) > NODE_SIZE
                \/ Len(children) > NODE_SIZE + 1
    IN [ctx |-> IF full THEN Abort(ctx, "chunk_full") ELSE ctx,
        node |-> [count |-> left.count + right.count + 1,
                  keys |-> keys, children |-> children]]

(* Faulty variant: the popped key stays counted. *)
pop_min_counted(ctx, node) ==
    [node |-> [count |-> node.count,
               keys |-> Tail(node.keys), children |-> Tail(node.children)],
     value |-> Head(node.keys), child |-> Head(node.children)]

pop_min(ctx, node) ==
    LET value == Head(node.keys)
        child == Head(node.children)
    IN [node |-> [count |-> node.count - (1 + maybe_len(ctx, child)),
                  keys |-> Tail(node.keys), children |-> Tail(node.children)],
        value |-> value, child |-> child]

pop_max(ctx, node) ==
    LET value == Last(node.keys)
        child == Last(node.children)
    IN [node |-> [count |-> node.count - (1 + maybe_len(ctx, child)),
                  keys |-> Front(node.keys), children |-> Front(node.children)],
        value |-> value, child |-> child]

(* Faulty variant: the key and the child go to the back. *)
push_min_back(ctx, node, child, value) ==
    [ctx |-> ctx,
     node |-> [count |-> node.count + 1 + maybe_len(ctx, child),
               keys |-> Append(node.keys, value),
               children |-> Append(node.children, child)]]

(* push_front / push_back panic on a full bounded sequence. *)
push_min(ctx, node, child, value) ==
    [ctx |-> IF Len(node.keys) >= NODE_SIZE \/ Len(node.children) >= NODE_SIZE + 1
             THEN Abort(ctx, "chunk_full") ELSE ctx,
     node |-> [count |-> node.count + 1 + maybe_len(ctx, child),
               keys |-> <<value>> \o node.keys,
               children |-> <<child>> \o node.children]]

push_max(ctx, node, child, value) ==
    [ctx |-> IF Len(node.keys) >= NODE_SIZE \/ Len(node.children) >= NODE_SIZE + 1
             THEN Abort(ctx, "chunk_full") ELSE ctx,
     node |-> [count |-> node.count + 1 + maybe_len(ctx, child),
               keys |-> Append(node.keys, value),
               children |-> Append(node.children, child)]]

(* children.get(i): none when i is out of range. *)
GetChild(node, i) ==
    IF i >= 0 /\ i < Len(node.children) THEN At(node.children, i) ELSE None

child_contains(ctx, self, index, key) ==
    LET c == GetChild(self, index)
    IN IF c = None THEN FALSE ELSE lookup(ctx.h, NodeOf(ctx, c), key) # <<>>

Act(a, x, y, z) == [a |-> a, x |-> x, y |-> y, z |-> z]

(* The first match of remove_index: which RemoveAction to take. *)
remove_action(ctx, self, idx) ==
    LET index == idx.index
    IN IF idx.ok THEN
         LET l == At(self.children, index)
             r == At(self.children, index + 1)
         IN IF l = None /\ r = None THEN Act("DeleteAt", index, 0, 0)
            ELSE IF l # None /\ ~too_small(NodeOf(ctx, l)) THEN
              IF is_leaf(NodeOf(ctx, l))
              THEN Act("PullUp", Len(NodeOf(ctx, l).keys) - 1, index, index)
              ELSE Act("StealFromLeft", index + 1, 0, 0)
            ELSE IF r # None /\ ~too_small(NodeOf(ctx, r)) THEN
              IF is_leaf(NodeOf(ctx, r))
              THEN Act("PullUp", 0, index, index + 1)
              ELSE Act("StealFromRight", index, 0, 0)
            ELSE IF l # None /\ r # None THEN Act("Merge", index, 0, 0)
            ELSE Act("Unreachable", 0, 0, 0)
       ELSE
         LET c == At(self.children, index)
         IN IF c = None THEN Act("NoChange", 0, 0, 0)
            ELSE IF too_small(NodeOf(ctx, c)) THEN
              LET left == IF index > 0 THEN GetChild(self, index - 1) ELSE None
                  right == GetChild(self, index + 1)
              IN IF left # None /\ ~too_small(NodeOf(ctx, left))
                 THEN Act("StealFromLeft", index, 0, 0)
                 ELSE IF right # None /\ ~too_small(NodeOf(ctx, right))
                 THEN Act("StealFromRight", index, 0, 0)
                 ELSE IF right # None THEN Act("MergeFirst", index, 0, 0)
                 ELSE IF left # None THEN Act("MergeFirst", index - 1, 0, 0)
                 ELSE Act("Unreachable", 0, 0, 0)
            ELSE Act("ContinueDown", index, 0, 0)

NoChange == Res("NoChange", NoVal, NoNode, NoNode)

Removed(value) == Res("Removed", value, NoNode, NoNode)

RECURSIVE remove(_, _, _)
RECURSIVE remove_index(_, _, _, _)
RECURSIVE PullUp(_, _, _, _, _, _)
RECURSIVE Merge(_, _, _, _)
RECURSIVE StealFromLeft(_, _, _, _)
RECURSIVE StealFromRight(_, _, _, _)
RECURSIVE MergeFirst(_, _, _, _)
RECURSIVE ContinueDown(_, _, _, _)

(* Faulty variant: the key goes, its child slot stays. *)
DeleteAtKeepSlot(ctx, self, index) ==
    Ret(ctx, [count |-> self.count - 1,
              keys |-> RemoveAt(self.keys, index),
              children |-> self.children],
        Removed(At(self.keys, index)))

DeleteAt(ctx, self, index) ==
    Ret(ctx, [count |-> self.count - 1,
              keys |-> RemoveAt(self.keys, index),
              children |-> RemoveAt(self.children, index)],
        Removed(At(self.keys, index)))

PullUp(ctx, self, target_index, pull_to, child_index, key) ==
    IF GetChild(self, child_index) = None
    THEN Aborted(Abort(ctx, "unreachable"), self)
    ELSE
    With(MakeMut(ctx, At(self.children, child_index)), LAMBDA mm :
    With(remove_index(mm.ctx, NodeOf(mm.ctx, mm.id),
                      [ok |-> TRUE, index |-> target_index], key), LAMBDA r :
    With(StoreNode(r.ctx, mm.id, r.self), LAMBDA c1 :
    With([self EXCEPT !.children = SetAt(@, child_index, mm.id)], LAMBDA self1 :
      CASE r.res.tag = "Abort" -> Aborted(c1, self1)
        [] r.res.tag = "NoChange" -> Aborted(Abort(c1, "unreachable"), self1)
        [] r.res.tag = "Removed" ->
             Ret(c1, [self1 EXCEPT !.keys = SetAt(@, pull_to, r.res.val),
                                   !.count = @ - 1],
                 Removed(At(self.keys, pull_to)))
        [] r.res.tag = "Update" ->
             With(Alloc(c1, r.res.left), LAMBDA a :
               Ret(DropRef(a.ctx, mm.id),
                   [self1 EXCEPT !.keys = SetAt(@, pull_to, r.res.val),
                                 !.count = @ - 1,
                                 !.children = SetAt(@, child_index, a.id)],
                   Removed(At(self.keys, pull_to))))))))

Merge(ctx, self, index, key) ==
    With(At(self.children, index), LAMBDA left :
    With(At(RemoveAt(self.children, index), index), LAMBDA right :
    With([self EXCEPT !.keys = RemoveAt(@, index),
                      !.children = SetAt(RemoveAt(@, index), index, None)],
         LAMBDA self1 :
      IF left = None \/ right = None
      THEN Aborted(Abort(ctx, "unwrap_none"), self)
      ELSE
      With(CloneRef(ctx, left), LAMBDA cl :
      With(CloneRef(cl.ctx, right), LAMBDA cr :
      With(merge(cr.ctx, At(self.keys, index), cl.node, cr.node), LAMBDA mg :
        IF mg.ctx.ab # "none" THEN Aborted(mg.ctx, self1)
        ELSE
        With(remove(mg.ctx, mg.node, key), LAMBDA r :
          CASE r.res.tag = "Abort" -> Aborted(r.ctx, self1)
            [] r.res.tag = "NoChange" -> Aborted(Abort(r.ctx, "unreachable"), self1)
            [] r.res.tag = "Removed" ->
                 IF self1.keys = <<>>
                 THEN Ret(r.ctx, self1, Res("Update", r.res.val, r.self, NoNode))
                 ELSE With(Alloc(r.ctx, r.self), LAMBDA a :
                        Ret(a.ctx,
                            [self1 EXCEPT !.count = @ - 1,
                                          !.children = SetAt(@, index, a.id)],
                            Removed(r.res.val)))
            [] r.res.tag = "Update" ->
                 IF self1.keys = <<>>
                 THEN Ret(DropNode(r.ctx, r.self), self1,
                          Res("Update", r.res.val, r.res.left, NoNode))
                 ELSE With(Alloc(DropNode(r.ctx, r.self), r.res.left), LAMBDA a :
                        Ret(a.ctx,
                            [self1 EXCEPT !.count = @ - 1,
                                          !.children = SetAt(@, index, a.id)],
                            Removed(r.res.val))))))))))

StealFromLeft(ctx, self, index, key) ==
    IF index = 0 \/ GetChild(self, index - 1) = None \/ GetChild(self, index) = None
    THEN Aborted(Abort(ctx, "unreachable"), self)
    ELSE
    With(MakeMut(ctx, At(self.children, index - 1)), LAMBDA mL :
    With(MakeMut(mL.ctx, At(self.children, index)), LAMBDA mC :
    With([self EXCEPT !.children = SetAt(SetAt(@, index - 1, mL.id), index, mC.id)],
         LAMBDA self1 :
    With(Last(NodeOf(mC.ctx, mL.id).children), LAMBDA stolen :
    With(push_min(IncRc(mC.ctx, stolen), NodeOf(mC.ctx, mC.id), stolen,
                  At(self.keys, index - 1)), LAMBDA pm :
      IF pm.ctx.ab # "none" THEN Aborted(pm.ctx, self1)
      ELSE
      With(remove(StoreNode(pm.ctx, mC.id, pm.node), pm.node, key), LAMBDA r :
      With(StoreNode(r.ctx, mC.id, r.self), LAMBDA c2 :
        CASE r.res.tag = "Abort" -> Aborted(c2, self1)
          [] r.res.tag = "NoChange" ->
               With(pop_min(c2, r.self), LAMBDA pp :
                 Ret(DropRef(StoreNode(c2, mC.id, pp.node), pp.child), self1, NoChange))
          [] OTHER ->
               With(pop_max(c2, NodeOf(c2, mL.id)), LAMBDA pl :
               With(DropRef(StoreNode(c2, mL.id, pl.node), pl.child), LAMBDA c3 :
               With([self1 EXCEPT !.keys = SetAt(@, index - 1, pl.value),
                                  !.count = @ - 1], LAMBDA self2 :
                 IF r.res.tag = "Removed" THEN Ret(c3, self2, Removed(r.res.val))
                 ELSE With(Alloc(c3, r.res.left), LAMBDA a :
                        Ret(DropRef(a.ctx, mC.id),
                            [self2 EXCEPT !.children = SetAt(@, index, a.id)],
                            Removed(r.res.val)))))))))))))

StealFromRight(ctx, self, index, key) ==
    IF GetChild(self, index) = None \/ GetChild(self, index + 1) = None
    THEN Aborted(Abort(ctx, "unreachable"), self)
    ELSE
    With(MakeMut(ctx, At(self.children, index)), LAMBDA mC :
    With(MakeMut(mC.ctx, At(self.children, index + 1)), LAMBDA mR :
    With([self EXCEPT !.children = SetAt(SetAt(@, index, mC.id), index + 1, mR.id)],
         LAMBDA self1 :
    With(At(NodeOf(mR.ctx, mR.id).children, 0), LAMBDA stolen :
    With(push_max(IncRc(mR.ctx, stolen), NodeOf(mR.ctx, mC.id), stolen,
                  At(self.keys, index)), LAMBDA pm :
      IF pm.ctx.ab # "none" THEN Aborted(pm.ctx, self1)
      ELSE
      With(remove(StoreNode(pm.ctx, mC.id, pm.node), pm.node, key), LAMBDA r :
      With(StoreNode(r.ctx, mC.id, r.self), LAMBDA c2 :
        CASE r.res.tag = "Abort" -> Aborted(c2, self1)
          [] r.res.tag = "NoChange" ->
               With(pop_max(c2, r.self), LAMBDA pp :
                 Ret(DropRef(StoreNode(c2, mC.id, pp.node), pp.child), self1, NoChange))
          [] OTHER ->
               With(pop_min(c2, NodeOf(c2, mR.id)), LAMBDA pr :
               With(DropRef(StoreNode(c2, mR.id, pr.node), pr.child), LAMBDA c3 :
               With([self1 EXCEPT !.keys = SetAt(@, index, pr.value),
                                  !.count = @ - 1], LAMBDA self2 :
                 IF r.res.tag = "Removed" THEN Ret(c3, self2, Removed(r.res.val))
                 ELSE With(Alloc(c3, r.res.left), LAMBDA a :
                        Ret(DropRef(a.ctx, mC.id),
                            [self2 EXCEPT !.children = SetAt(@, index, a.id)],
                            Removed(r.res.val)))))))))))))

MergeFirst(ctx, self, index, key) ==
    IF /\ cmp_keys(At(self.keys, index), key) # "Equal"
       /\ ~child_contains(ctx, self, index, key)
       /\ ~child_contains(ctx, self, index + 1, key)
    THEN Ret(ctx, self, NoChange)
    ELSE
    With(At(self.children, index), LAMBDA left :
    With(At(RemoveAt(self.children, index), index), LAMBDA right :
    With([self EXCEPT !.keys = RemoveAt(@, index),
                      !.children = SetAt(RemoveAt(@, index), index, None)],
         LAMBDA self1 :
      IF left = None \/ right = None
      THEN Aborted(Abort(ctx, "unwrap_none"), self)
      ELSE
      With(CloneRef(ctx, left), LAMBDA cl :
      With(CloneRef(cl.ctx, right), LAMBDA cr :
      With(merge(cr.ctx, At(self.keys, index), cl.node, cr.node), LAMBDA mg :
        IF mg.ctx.ab # "none" THEN Aborted(mg.ctx, self1)
        ELSE
        With(remove(mg.ctx, mg.node, key), LAMBDA r :
          CASE r.res.tag = "Abort" -> Aborted(r.ctx, self1)
            [] r.res.tag = "NoChange" ->
                 Aborted(Abort(r.ctx, "absent_key_while_merging"), self1)
            [] r.res.tag = "Removed" ->
                 IF self1.keys = <<>>
                 THEN Ret(r.ctx, self1, Res("Update", r.res.val, r.self, NoNode))
                 ELSE With(Alloc(r.ctx, r.self), LAMBDA a :
                        Ret(a.ctx,
                            [self1 EXCEPT !.count = @ - 1,
                                          !.children = SetAt(@, index, a.id)],
                            Removed(r.res.val)))
            [] r.res.tag = "Update" ->
                 IF self1.keys = <<>>
                 THEN Ret(DropNode(r.ctx, r.self), self1,
                          Res("Update", r.res.val, r.res.left, NoNode))
                 ELSE With(Alloc(DropNode(r.ctx, r.self), r.res.left), LAMBDA a :
                        Ret(a.ctx,
                            [self1 EXCEPT !.count = @ - 1,
                                          !.children = SetAt(@, index, a.id)],
                            Removed(r.res.val))))))))))

(* Faulty variant: the count is kept when the child removed the key. *)
ContinueDownUncounted(ctx, self, index, key) ==
    With(MakeMut(ctx, At(self.children, index)), LAMBDA mm :
    With(remove(mm.ctx, NodeOf(mm.ctx, mm.id), key), LAMBDA r :
    With(StoreNode(r.ctx, mm.id, r.self), LAMBDA c1 :
    With([self EXCEPT !.children = SetAt(@, index, mm.id)], LAMBDA self1 :
      CASE r.res.tag = "Abort" -> Aborted(c1, self1)
        [] r.res.tag = "NoChange" -> Ret(c1, self1, NoChange)
        [] r.res.tag = "Removed" -> Ret(c1, self1, Removed(r.res.val))
        [] r.res.tag = "Update" ->
             With(Alloc(c1, r.res.left), LAMBDA a :
               Ret(DropRef(a.ctx, mm.id),
                   [self1 EXCEPT !.children = SetAt(@, index, a.id)],
                   Removed(r.res.val)))))))

ContinueDown(ctx, self, index, key) ==
    IF GetChild(self, index) = None
    THEN Aborted(Abort(ctx, "unreachable"), self)
    ELSE
    With(MakeMut(ctx, At(self.children, index)), LAMBDA mm :
    With(remove(mm.ctx, NodeOf(mm.ctx, mm.id), key), LAMBDA r :
    With(StoreNode(r.ctx, mm.id, r.self), LAMBDA c1 :
    With([self EXCEPT !.children = SetAt(@, index, mm.id)], LAMBDA self1 :
      CASE r.res.tag = "Abort" -> Aborted(c1, self1)
        [] r.res.tag = "NoChange" -> Ret(c1, self1, NoChange)
        [] r.res.tag = "Removed" ->
             Ret(c1, [self1 EXCEPT !.count = @ - 1], Removed(r.res.val))
        [] r.res.tag = "Update" ->
             With(Alloc(c1, r.res.left), LAMBDA a :
               Ret(DropRef(a.ctx, mm.id),
                   [self1 EXCEPT !.count = @ - 1,
                                 !.children = SetAt(@, index, a.id)],
                   Removed(r.res.val)))))))

(* Faulty variant: a node that is left with one key also hands itself up   *)
(* as an Update.                                                           *)
UpdatedEarly(r) ==
    IF r.res.tag = "Update" \/ (r.res.tag = "Removed" /\ Len(r.self.keys) = 1)
    THEN [r EXCEPT !.ctx.up = @ + 1,
                   !.res = Res("Update", r.res.val,
                               IF r.res.tag = "Update" THEN r.res.left ELSE r.self,
                               NoNode)]
    ELSE r

(* What a call of remove_index returns, an Update counted. *)
Returned(r) ==
    IF r.res.tag = "Update" THEN [r EXCEPT !.ctx.up = @ + 1] ELSE r

remove_index(ctx, self, idx, key) ==
    With(remove_action(ctx, self, idx), LAMBDA action :
      Returned(
      CASE action.a = "NoChange" -> Ret(ctx, self, NoChange)
        [] action.a = "Unreachable" -> Aborted(Abort(ctx, "unreachable"), self)
        [] action.a = "DeleteAt" -> DeleteAt(ctx, self, action.x)
        [] action.a = "PullUp" -> PullUp(ctx, self, action.x, action.y, action.z, key)
        [] action.a = "Merge" -> Merge(ctx, self, action.x, key)
        [] action.a = "StealFromLeft" -> StealFromLeft(ctx, self, action.x, key)
        [] action.a = "StealFromRight" -> StealFromRight(ctx, self, action.x, key)
        [] action.a = "MergeFirst" -> MergeFirst(ctx, self, action.x, key)
        [] action.a = "ContinueDown" -> ContinueDown(ctx, self, action.x, key)))

remove(ctx, self, key) == remove_index(ctx, self, search_key(self.keys, key), key)

---------------------------------------------------------------------------
(* lookup_mut, with the caller's write of payload v through the returned   *)
(* mutable reference.                                                      *)
RECURSIVE lookup_mut(_, _, _, _)
lookup_mut(ctx, self, key, v) ==
    IF self.keys = <<>> THEN [ctx |-> ctx, self |-> self, found |-> FALSE]
    ELSE
    With(search_key(self.keys, key), LAMBDA sr :
      IF sr.ok
      THEN [ctx |-> ctx,
            self |-> [self EXCEPT !.keys = SetAt(@, sr.index, <<key, v>>)],
            found |-> TRUE]
      ELSE IF At(self.children, sr.index) = None
      THEN [ctx |-> ctx, self |-> self, found |-> FALSE]
      ELSE With(MakeMut(ctx, At(self.children, sr.index)), LAMBDA mm :
           With(lookup_mut(mm.ctx, NodeOf(mm.ctx, mm.id), key, v), LAMBDA r :
             [ctx |-> StoreNode(r.ctx, mm.id, r.self),
              self |-> [self EXCEPT !.children = SetAt(@, sr.index, mm.id)],
              found |-> r.found])))

---------------------------------------------------------------------------
(* Views of a tree: the nodes below a node, read through the heap. *)
ChildNodes(h, node) ==
    [i \in 1..Len(node.children) |->
        IF node.children[i] = None THEN <<>> ELSE <<h[node.children[i]].node>>]

RECURSIVE Tree(_, _)
Tree(h, node) ==
    [count |-> node.count, keys |-> node.keys,
     children |-> [i \in 1..Len(node.children) |->
                     IF node.children[i] = None THEN <<>>
                     ELSE <<Tree(h, h[node.children[i]].node)>>]]

RECURSIVE Concat(_)
Concat(ss) == IF ss = <<>> THEN <<>> ELSE Head(ss) \o Concat(Tail(ss))

(* The elements of a subtree in order: child 0, key 0, child 1, key 1, ... *)
RECURSIVE InOrder(_, _)
InOrder(h, node) ==
    Concat([i \in 1..Len(node.children) |->
              (IF node.children[i] = None THEN <<>>
               ELSE InOrder(h, h[node.children[i]].node))
              \o (IF i <= Len(node.keys) THEN <<node.keys[i]>> ELSE <<>>)])
    \o SubSeq(node.keys, Len(node.children) + 1, Len(node.keys))

RECURSIVE Height(_, _)
Height(h, node) ==
    IF node.children = <<>> \/ node.children[1] = None THEN 1
    ELSE 1 + Height(h, h[node.children[1]].node)

(* The addresses reachable from a list of handles, in depth-first order. *)
RECURSIVE Reach(_, _, _)
Reach(h, todo, acc) ==
    IF todo = <<>> THEN acc
    ELSE LET id == Head(todo)
         IN IF id = None \/ (\E i \in 1..Len(acc) : acc[i] = id)
            THEN Reach(h, Tail(todo), acc)
            ELSE Reach(h, h[id].node.children \o Tail(todo), Append(acc, id))

Holders == root.children \o (IF snap = <<>> THEN <<>> ELSE snap[1].children)

Occurrences(s, id) == Cardinality({i \in 1..Len(s) : s[i] = id})

(* Every node of the heap is reachable, and its reference count is the     *)
(* number of handles to it.                                                *)
HeapOk ==
    LET live == Reach(heap, Holders, <<>>)
    IN /\ DOMAIN heap = {live[i] : i \in 1..Len(live)}
       /\ \A id \in DOMAIN heap :
            heap[id].rc = Occurrences(Holders, id)
               + Cardinality({<<p, i>> \in (DOMAIN heap) \X (1..(NODE_SIZE + 1)) :
                     i <= Len(heap[p].node.children) /\ heap[p].node.children[i] = id})

(* Addresses are not observable: after each operation the heap is          *)
(* renumbered in depth-first order from the root and then from the clone.  *)
Renumber(r, h, s) ==
    With(Reach(h, r.children \o (IF s = <<>> THEN <<>> ELSE s[1].children), <<>>),
         LAMBDA live :
      LET pos(id) == IF id = None THEN None ELSE CHOOSE i \in 1..Len(live) : live[i] = id
          ren(node) == [node EXCEPT !.children = [i \in 1..Len(@) |-> pos(@[i])]]
      IN [root |-> ren(r),
          heap |-> [i \in 1..Len(live) |->
                      [rc |-> h[live[i]].rc, node |-> ren(h[live[i]].node)]],
          snap |-> IF s = <<>> THEN <<>> ELSE <<ren(s[1])>>])

(* What a holder of a tree can observe of it. *)
Observe(h, node) ==
    [look |-> [k \in AllKeys |-> lookup(h, node, k)],
     len |-> node.count,
     iter |-> InOrder(h, node)]

---------------------------------------------------------------------------
(* The owner of the root: an initially empty tree, and a clone of it.      *)
(* model is the abstract map: the payload stored under each key, 0 = none. *)
NoRes == [op |-> "none", tag |-> "none", act |-> "none"]

(* Scripted histories that build trees of height 3: k > 0 inserts key k,   *)
(* k < 0 removes key -k, 0 clones the root.                                *)
Ascending == [i \in 1..ScriptLen |-> i]

Descending == [i \in 1..ScriptLen |-> ScriptLen + 1 - i]

(* The smallest ascending build of height 3, thinned until the root's two  *)
(* children hold one key each.                                             *)
Thinned == [i \in 1..ThinLen |-> i] \o <<-1, -4, -7, -2, -10, -13, -16, -11>>

(* A full root over five leaves whose three middle leaves are full, each   *)
(* with one key of its range still absent (8, 14 and 20).                  *)
Filled ==
    <<1, 2, 3, 4, 5, 9, 10, 11, 15, 16, 17, 21, 22, 23>>
      \o <<6, 7, 12, 13, 18, 19>>

Scripts ==
    { Ascending,
      Filled,
      Thinned,
      Thinned \o <<0>>,
      Ascending \o <<-1, -4, -7, -2>>,
      Ascending \o <<-1, -4, -7, -2, 0>>,
      Descending \o <<-ScriptLen, 3 - ScriptLen, 6 - ScriptLen, 1 - ScriptLen>>,
      Descending \o <<-ScriptLen, 3 - ScriptLen, 6 - ScriptLen, 1 - ScriptLen, 0>> }

(* No iterator is alive; what the caller of an iterator has seen of it:   *)
(* the values next and next_back returned, and which of them returned None. *)
NoIter ==
    [kind |-> "none", fwd_last |-> <<>>, fwd_stack |-> <<>>,
     back_last |-> <<>>, back_stack |-> <<>>, remaining |-> 0]

NoSeen ==
    [fwd |-> <<>>, back |-> <<>>, fwd_none |-> FALSE, back_none |-> FALSE,
     call |-> "none", len |-> 0]

Init ==
    /\ iter = NoIter
    /\ seen = NoSeen
    /\ root = Default
    /\ heap = <<>>
    /\ snap = <<>>
    /\ snapObs = <<>>
    /\ model = [k \in AllKeys |-> 0]
    /\ res = NoRes
    /\ aborted = "none"
    /\ script \in {<<>>} \cup Scripts
    /\ phase = IF script = <<>> THEN "free" ELSE "build"
    /\ ops = 0

(* The owner may act: in the free phase at most MaxCowOps times while a    *)
(* clone is alive, after a scripted build at most MaxDeepOps times.        *)
MayAct ==
    /\ aborted = "none"
    /\ \/ phase = "free" /\ (snap = <<>> \/ ops < MaxCowOps)
       \/ phase = "deep" /\ ops < MaxDeepOps

ActKeys == IF phase = "deep" THEN DeepKeys ELSE Keys

Counted == IF phase = "deep" \/ (phase = "free" /\ snap # <<>>) THEN ops + 1 ELSE ops

(* root.insert(value); a Split is installed as from_split(l, m, r). *)
Inserted(k, v) ==
    \E r \in {insert(Ctx(heap), root, <<k, v>>)} :
      /\ res' = [op |-> "insert", tag |-> r.res.tag, act |-> "none"]
      /\ IF r.res.tag = "Abort"
         THEN /\ aborted' = r.ctx.ab
              /\ UNCHANGED <<root, heap, snap, model>>
         ELSE \E fs \in {IF r.res.tag = "Split"
                          THEN from_split(r.ctx, r.res.left, r.res.val, r.res.right)
                          ELSE [ctx |-> r.ctx, node |-> r.self]} :
              \E post \in {Renumber(fs.node, fs.ctx.h, snap)} :
                /\ root' = post.root
                /\ heap' = post.heap
                /\ snap' = post.snap
                /\ model' = [model EXCEPT ![k] = v]
                /\ UNCHANGED aborted

(* root.remove(key); an Update(old, new_root) replaces the root. *)
Removing(k) ==
    \E r \in {remove(Ctx(heap), root, k)} :
      /\ res' = [op |-> "remove", tag |-> r.res.tag,
                 act |-> remove_action(Ctx(heap), root, search_key(root.keys, k)).a]
      /\ IF r.res.tag = "Abort"
         THEN /\ aborted' = r.ctx.ab
              /\ UNCHANGED <<root, heap, snap, model>>
         ELSE \E post \in {IF r.res.tag = "Update"
                            THEN Renumber(r.res.left, DropNode(r.ctx, r.self).h, snap)
                            ELSE Renumber(r.self, r.ctx.h, snap)} :
                /\ root' = post.root
                /\ heap' = post.heap
                /\ snap' = post.snap
                /\ model' = IF r.res.tag = "NoChange" THEN model
                            ELSE [model EXCEPT ![k] = 0]
                /\ UNCHANGED aborted

(* Faulty variant: the clone takes the child handles without counting them. *)
CloningUncounted ==
    /\ snap = <<>>
    /\ snap' = <<root>>
    /\ heap' = heap
    /\ snapObs' = <<Observe(heap, root)>>
    /\ res' = [op |-> "clone", tag |-> "none", act |-> "none"]
    /\ UNCHANGED <<root, model, aborted>>

(* Node::clone of the root: every child handle is shared. *)
Cloning ==
    /\ snap = <<>>
    /\ snap' = <<root>>
    /\ heap' = IncAll(Ctx(heap), root.children).h
    /\ snapObs' = <<Observe(heap, root)>>
    /\ res' = [op |-> "clone", tag |-> "none", act |-> "none"]
    /\ UNCHANGED <<root, model, aborted>>

InsertOp(k, v) ==
    /\ MayAct
    /\ k \in ActKeys
    /\ Inserted(k, v)
    /\ ops' = Counted
    /\ UNCHANGED <<snapObs, phase, script, iter, seen>>

RemoveOp(k) ==
    /\ MayAct
    /\ k \in ActKeys
    /\ Removing(k)
    /\ ops' = Counted
    /\ UNCHANGED <<snapObs, phase, script, iter, seen>>

(* root.lookup_mut(key), and a write of payload v through the reference. *)
LookupMutOp(k, v) ==
    /\ MayAct
    /\ k \in ActKeys
    /\ \E r \in {lookup_mut(Ctx(heap), root, k, v)} :
       \E post \in {Renumber(r.self, r.ctx.h, snap)} :
         /\ root' = post.root
         /\ heap' = post.heap
         /\ snap' = post.snap
         /\ model' = IF r.found THEN [model EXCEPT ![k] = v] ELSE model
         /\ res' = [op |-> "lookup_mut", tag |-> IF r.found THEN "Some" ELSE "None",
                    act |-> "none"]
    /\ ops' = Counted
    /\ UNCHANGED <<snapObs, aborted, phase, script, iter, seen>>

CloneOp ==
    /\ MayAct
    /\ Cloning
    /\ ops' = IF phase = "deep" THEN ops + 1 ELSE 0
    /\ UNCHANGED <<phase, script, iter, seen>>

(* The clone is dropped. *)
DropCloneOp ==
    /\ aborted = "none"
    /\ phase = "free"
    /\ snap # <<>>
    /\ \E post \in {Renumber(root, DropNode(Ctx(heap), snap[1]).h, <<>>)} :
         /\ root' = post.root
         /\ heap' = post.heap
         /\ snap' = post.snap
    /\ snapObs' = <<>>
    /\ ops' = 0
    /\ UNCHANGED <<model, res, aborted, phase, script, iter, seen>>

(* One step of a scripted build. *)
BuildStep ==
    /\ aborted = "none"
    /\ phase = "build"
    /\ iter.kind = "none"
    /\ \/ Head(script) > 0 /\ Inserted(Head(script), 1) /\ UNCHANGED snapObs
       \/ Head(script) < 0 /\ Removing(-Head(script)) /\ UNCHANGED snapObs
       \/ Head(script) = 0 /\ Cloning
    /\ script' = Tail(script)
    /\ phase' = IF Tail(script) = <<>> THEN "deep" ELSE "build"
    /\ ops' = 0
    /\ UNCHANGED <<iter, seen>>

Next ==
    \/ \E k \in AllKeys, v \in Vals : InsertOp(k, v)
    \/ \E k \in AllKeys : RemoveOp(k)
    \/ \E k \in AllKeys, v \in Vals : LookupMutOp(k, v)
    \/ CloneOp
    \/ DropCloneOp
    \/ BuildStep

Spec == Init /\ [][Next]_vars

---------------------------------------------------------------------------
(* The nodes of the tree: the root, and the nodes below it. *)
Below == Reach(heap, root.children, <<>>)

NonRootNodes == {heap[Below[i]].node : i \in 1..Len(Below)}

TreeNodes == {root} \cup NonRootNodes

Stored(k) == IF model[k] = 0 THEN <<>> ELSE << <<k, model[k]>> >>

Succeeded(tag) == tag \in {"Removed", "Update"}

(* C1: the tree agrees with the abstract map: lookup(k) returns the element *)
(* most recently inserted under k and not removed since, none for every    *)
(* other key, and remove(k) on a present key hands back exactly that       *)
(* element.                                                                *)
C1_AgreesWithMap ==
    \A k \in AllKeys :
        /\ lookup(heap, root, k) = Stored(k)
        /\ model[k] # 0 =>
             LET r == remove(Ctx(heap), root, k)
             IN Succeeded(r.res.tag) /\ r.res.val = <<k, model[k]>>

(* C2: no abort is reached: every operation returns a tagged result. *)
C2_NoAbort == aborted = "none"

(* C3 as stated: every non-root node has at least MEDIAN keys. *)
C3_AtLeastMedian == \A n \in NonRootNodes : Len(n.keys) >= MEDIAN

(* C3 as amended: every non-root node has at least MEDIAN - 1 keys, and is *)
(* never empty; only the root may hold fewer, down to 0.                   *)
C3_AtLeastMedianLessOne ==
    \A n \in NonRootNodes : Len(n.keys) >= MEDIAN - 1 /\ Len(n.keys) >= 1

C3_Witness ==
    /\ res.op = "remove" /\ Succeeded(res.tag)
    /\ \E n \in NonRootNodes : Len(n.keys) = MEDIAN - 1

(* The keys of a node are strictly increasing and lie strictly between lo  *)
(* and hi, and so do, between consecutive keys, the subtrees.              *)
RECURSIVE Ordered(_, _, _, _)
Ordered(h, node, lo, hi) ==
    LET n == Len(node.keys)
        key(i) == IF i = 0 THEN lo ELSE IF i = n + 1 THEN hi ELSE KeyOf(node.keys[i])
    IN /\ \A i \in 1..n : lo < key(i) /\ key(i) < hi
       /\ \A i \in 1..(n - 1) : key(i) < key(i + 1)
       /\ \A i \in 1..Len(node.children) :
            node.children[i] # None =>
              /\ i <= n + 1
              /\ Ordered(h, h[node.children[i]].node, key(i - 1), key(i))

(* C4: the search-tree order holds at every node. *)
C4_SearchTreeOrder == Ordered(heap, root, 0, MaxKey + ScriptLen + 2)

C4_Witness ==
    /\ res.op = "remove" /\ res.tag = "Removed"
    /\ res.act \in {"StealFromLeft", "StealFromRight"}
    /\ Height(heap, root) >= 2

(* C5: every node's count is the number of keys in its subtree, so the     *)
(* root's len() is the number of stored elements.                          *)
C5_CountIsSize ==
    /\ \A n \in TreeNodes :
         n.count = Len(n.keys) + sum_up_children(Ctx(heap), n.children)
    /\ root.count = Cardinality({k \in AllKeys : model[k] # 0})

C5_Witness ==
    /\ res.op = "remove" /\ res.tag = "Removed"
    /\ res.act \in {"StealFromLeft", "StealFromRight", "MergeFirst", "Merge"}
    /\ root.count >= NODE_SIZE

(* C6: every node has exactly one more child slot than keys. *)
C6_OneMoreChild == \A n \in TreeNodes : Len(n.children) = Len(n.keys) + 1

C6_Witness ==
    /\ res.op = "remove" /\ Succeeded(res.tag)
    /\ root.keys = <<>> /\ root.children = <<None>>

(* Every leaf below a node is at depth d. *)
RECURSIVE LeavesAt(_, _, _)
LeavesAt(h, node, d) ==
    IF \A i \in 1..Len(node.children) : node.children[i] = None
    THEN d = 1
    ELSE /\ \A i \in 1..Len(node.children) : node.children[i] # None
         /\ d > 1
         /\ \A i \in 1..Len(node.children) :
              LeavesAt(h, h[node.children[i]].node, d - 1)

Balanced == LeavesAt(heap, root, Height(heap, root))

(* C7: all leaves are at the same depth, no node mixes empty and present   *)
(* child slots, and the height changes only when the owner installs a root *)
(* Split or a root Update.                                                 *)
C7_BalancedHeight ==
    [][/\ Balanced'
       /\ Height(heap, root)' # Height(heap, root) => res'.tag \in {"Split", "Update"}
      ]_vars

C7_Witness ==
    /\ res.op = "remove" /\ res.tag = "Update"
    /\ Height(heap, root) >= 2

(* C8: a clone of the root observes, whatever is done to the root, what it *)
(* observed when it was made: every lookup, its len, its iteration.        *)
C8_CloneIsolated == snap # <<>> => Observe(heap, snap[1]) = snapObs[1]

C8_Witness ==
    /\ snap # <<>>
    /\ res.op \in {"insert", "remove", "lookup_mut"}
    /\ Height(heap, snap[1]) >= 2
    /\ Observe(heap, root) # snapObs[1]

(* C9: when remove returns NoChange, every node keeps its keys, its        *)
(* children and its count.                                                 *)
C9_NoChangeKeepsTree ==
    [][res'.op = "remove" /\ res'.tag = "NoChange"
         => Tree(heap', root') = Tree(heap, root)]_vars

C9_Witness ==
    /\ res.op = "remove" /\ res.tag = "NoChange"
    /\ res.act \in {"StealFromLeft", "StealFromRight"}

(* C10: lookup(k) is some exactly when remove(k) succeeds. *)
C10_LookupIffRemove ==
    \A k \in AllKeys :
        lookup(heap, root, k) # <<>>
            <=> Succeeded(remove(Ctx(heap), root, k).res.tag)

---------------------------------------------------------------------------
(* The owner's calls as functions of a tree (h, node): the tree that       *)
(* root.insert(value) leaves, a Split installed as from_split(l, m, r).    *)
owner_insert(h, node, value) ==
    With(insert(Ctx(h), node, value), LAMBDA r :
      IF r.res.tag = "Split"
      THEN With(from_split(r.ctx, r.res.left, r.res.val, r.res.right), LAMBDA fs :
             [h |-> fs.ctx.h, root |-> fs.node, res |-> r.res, ctx |-> fs.ctx])
      ELSE [h |-> r.ctx.h, root |-> r.self, res |-> r.res, ctx |-> r.ctx])

(* The tree that root.remove(key) leaves, the node of an Update installed  *)
(* as the new root.                                                        *)
owner_remove(h, node, key) ==
    With(remove(Ctx(h), node, key), LAMBDA r :
      IF r.res.tag = "Update"
      THEN With(DropNode(r.ctx, r.self), LAMBDA c :
             [h |-> c.h, root |-> r.res.left, res |-> r.res, ctx |-> c])
      ELSE [h |-> r.ctx.h, root |-> r.self, res |-> r.res, ctx |-> r.ctx])

(* C11: inserting a value and then the same value again: the second insert *)
(* returns Replaced(v) and leaves every node's keys, children and count    *)
(* unchanged.                                                              *)
C11_InsertTwice ==
    \A k \in AllKeys, v \in Vals :
      With(owner_insert(heap, root, <<k, v>>), LAMBDA a :
      With(owner_insert(a.h, a.root, <<k, v>>), LAMBDA b :
        /\ b.res.tag = "Replaced" /\ b.res.val = <<k, v>>
        /\ Tree(b.h, b.root) = Tree(a.h, a.root)))

C11_Witness ==
    /\ res.op = "insert" /\ res.tag = "Replaced"
    /\ Height(heap, root) >= 2
    /\ \E k \in AllKeys : lookup(heap, root, k) = <<>>

(* C12 as stated: insert(v), then remove of v's key, returns Removed(v)    *)
(* and the len of before the insert is restored.                           *)
C12_InsertThenRemove ==
    \A k \in AllKeys, v \in Vals :
      With(owner_insert(heap, root, <<k, v>>), LAMBDA a :
      With(owner_remove(a.h, a.root, k), LAMBDA b :
        /\ b.res.tag = "Removed" /\ b.res.val = <<k, v>>
        /\ b.root.count = root.count))

(* C12 as amended: for a key that is not stored, insert(v) then remove of  *)
(* v's key returns Removed(v), or Update(v, n) when the root is depleted,  *)
(* and the len of before the insert is restored.                           *)
C12_FreshInsertThenRemove ==
    \A k \in AllKeys, v \in Vals :
      lookup(heap, root, k) = <<>> =>
        With(owner_insert(heap, root, <<k, v>>), LAMBDA a :
        With(owner_remove(a.h, a.root, k), LAMBDA b :
          /\ Succeeded(b.res.tag) /\ b.res.val = <<k, v>>
          /\ b.root.count = root.count))

C12_Witness ==
    /\ Height(heap, root) = 3
    /\ \E k \in AllKeys :
         /\ lookup(heap, root, k) = <<>>
         /\ With(owner_insert(heap, root, <<k, 1>>), LAMBDA a :
              owner_remove(a.h, a.root, k).res.tag = "Update")

---------------------------------------------------------------------------
(* Iter: a borrowing, double-ended in-order traversal with two work        *)
(* stacks.  A stack is a Vec: the top is the last element.                 *)
Consider(node) == [t |-> "Consider", n |-> node, v |-> NoVal]

Yield(value) == [t |-> "Yield", n |-> NoNode, v |-> value]

(* remaining -= 1 on a usize of 0: a panic in a debug build, usize::MAX in *)
(* a release build.  Either outcome is written Underflow.                  *)
Underflow == -1

(* Faulty variant: a yield leaves remaining as it is. *)
Undiminished(n) == n

Decremented(n) == IF n > 0 THEN n - 1 ELSE Underflow

Iter_new(node) ==
    [kind |-> "Iter", fwd_last |-> <<>>, fwd_stack |-> <<Consider(node)>>,
     back_last |-> <<>>, back_stack |-> <<Consider(node)>>,
     remaining |-> node.count]

Iter_push_node(h, stack, maybe_node) ==
    IF maybe_node = None THEN stack ELSE Append(stack, Consider(h[maybe_node].node))

(* Faulty variant: the keys and children are pushed left to right, so the  *)
(* rightmost work ends on top of the forward stack.                        *)
RECURSIVE Iter_push_ltr(_, _, _, _)
Iter_push_ltr(h, stack, node, n) ==
    IF n >= Len(node.keys) THEN Iter_push_node(h, stack, At(node.children, n))
    ELSE Iter_push_ltr(h,
             Append(Iter_push_node(h, stack, At(node.children, n)),
                    Yield(At(node.keys, n))),
             node, n + 1)

(* The body of Iter::push from iteration n on. *)
RECURSIVE Iter_push_from(_, _, _, _)
Iter_push_from(h, stack, node, n) ==
    IF n >= Len(node.keys) THEN Iter_push_node(h, stack, At(node.children, 0))
    ELSE Iter_push_from(h,
             Append(Iter_push_node(h, stack, At(node.children, Len(node.keys) - n)),
                    Yield(At(node.keys, Len(node.keys) - n - 1))),
             node, n + 1)

Iter_push(h, stack, node) == Iter_push_from(h, stack, node, 0)

(* The body of Iter::push_back from iteration i on. *)
RECURSIVE Iter_push_back_from(_, _, _, _)
Iter_push_back_from(h, stack, node, i) ==
    IF i >= Len(node.keys) THEN Iter_push_node(h, stack, At(node.children, Len(node.keys)))
    ELSE Iter_push_back_from(h,
             Append(Iter_push_node(h, stack, At(node.children, i)),
                    Yield(At(node.keys, i))),
             node, i + 1)

Iter_push_back(h, stack, node) == Iter_push_back_from(h, stack, node, 0)

(* Faulty variant: next stops only at a value Greater than the last one    *)
(* next_back yielded.                                                      *)
RECURSIVE Iter_next_stops_past(_, _)
Iter_next_stops_past(h, it) ==
    IF it.fwd_stack = <<>>
    THEN [it |-> [it EXCEPT !.remaining = 0], ret |-> <<>>]
    ELSE LET top == Last(it.fwd_stack)
         IN IF top.t = "Consider"
            THEN Iter_next_stops_past(h,
                     [it EXCEPT !.fwd_stack = Iter_push(h, Front(@), top.n)])
            ELSE IF it.back_last # <<>> /\ cmp_values(top.v, it.back_last[1]) = "Greater"
            THEN [it |-> [it EXCEPT !.fwd_stack = <<>>, !.back_stack = <<>>,
                                    !.remaining = 0],
                  ret |-> <<>>]
            ELSE [it |-> [it EXCEPT !.fwd_stack = Front(@),
                                    !.remaining = Decremented(@),
                                    !.fwd_last = <<top.v>>],
                  ret |-> <<top.v>>]

(* Iterator::next: the iterator after the call, and what it returned. *)
RECURSIVE Iter_next(_, _)
Iter_next(h, it) ==
    IF it.fwd_stack = <<>>
    THEN [it |-> [it EXCEPT !.remaining = 0], ret |-> <<>>]
    ELSE LET top == Last(it.fwd_stack)
         IN IF top.t = "Consider"
            THEN Iter_next(h, [it EXCEPT !.fwd_stack = Iter_push(h, Front(@), top.n)])
            ELSE IF it.back_last # <<>> /\ cmp_values(top.v, it.back_last[1]) # "Less"
            THEN [it |-> [it EXCEPT !.fwd_stack = <<>>, !.back_stack = <<>>,
                                    !.remaining = 0],
                  ret |-> <<>>]
            ELSE [it |-> [it EXCEPT !.fwd_stack = Front(@),
                                    !.remaining = Decremented(@),
                                    !.fwd_last = <<top.v>>],
                  ret |-> <<top.v>>]

(* Faulty variant: next_back yields without looking at what next has       *)
(* yielded.                                                                *)
RECURSIVE Iter_next_back_unchecked(_, _)
Iter_next_back_unchecked(h, it) ==
    IF it.back_stack = <<>>
    THEN [it |-> [it EXCEPT !.remaining = 0], ret |-> <<>>]
    ELSE LET top == Last(it.back_stack)
         IN IF top.t = "Consider"
            THEN Iter_next_back_unchecked(h,
                     [it EXCEPT !.back_stack = Iter_push_back(h, Front(@), top.n)])
            ELSE [it |-> [it EXCEPT !.back_stack = Front(@),
                                    !.remaining = Decremented(@),
                                    !.back_last = <<top.v>>],
                  ret |-> <<top.v>>]

(* DoubleEndedIterator::next_back *)
RECURSIVE Iter_next_back(_, _)
Iter_next_back(h, it) ==
    IF it.back_stack = <<>>
    THEN [it |-> [it EXCEPT !.remaining = 0], ret |-> <<>>]
    ELSE LET top == Last(it.back_stack)
         IN IF top.t = "Consider"
            THEN Iter_next_back(h, [it EXCEPT !.back_stack = Iter_push_back(h, Front(@), top.n)])
            ELSE IF it.fwd_last # <<>> /\ cmp_values(top.v, it.fwd_last[1]) # "Greater"
            THEN [it |-> [it EXCEPT !.fwd_stack = <<>>, !.back_stack = <<>>,
                                    !.remaining = 0],
                  ret |-> <<>>]
            ELSE [it |-> [it EXCEPT !.back_stack = Front(@),
                                    !.remaining = Decremented(@),
                                    !.back_last = <<top.v>>],
                  ret |-> <<top.v>>]

size_hint(it) == <<it.remaining, <<it.remaining>>>>

---------------------------------------------------------------------------
(* ConsumingIter: the same traversal over owned nodes.  The stacks own     *)
(* their nodes, so the heap is threaded through every step.                *)
ConsumingIter_new(ctx, node) ==
    [ctx |-> IncAll(IncAll(ctx, node.children), node.children),
     it |-> [kind |-> "ConsumingIter",
             fwd_last |-> <<>>, fwd_stack |-> <<Consider(node)>>,
             back_last |-> <<>>, back_stack |-> <<Consider(node)>>,
             remaining |-> node.count]]

ConsumingIter_push_node(ctx, stack, maybe_node) ==
    IF maybe_node = None THEN [ctx |-> ctx, stack |-> stack]
    ELSE With(CloneRef(ctx, maybe_node), LAMBDA c :
           [ctx |-> c.ctx, stack |-> Append(stack, Consider(c.node))])

(* The loop of ConsumingIter::push with n iterations to go: the node is    *)
(* emptied from the back.                                                  *)
RECURSIVE ConsumingIter_push_from(_, _, _, _)
ConsumingIter_push_from(ctx, stack, node, n) ==
    With(ConsumingIter_push_node(ctx, stack, Last(node.children)), LAMBDA p :
      IF n = 0 THEN p
      ELSE ConsumingIter_push_from(p.ctx, Append(p.stack, Yield(Last(node.keys))),
               [node EXCEPT !.children = Front(@), !.keys = Front(@)], n - 1))

ConsumingIter_push(ctx, stack, node) ==
    ConsumingIter_push_from(ctx, stack, node, Len(node.keys))

(* Faulty variant: push_back takes its keys from the back of the node. *)
RECURSIVE ConsumingIter_push_back_keys_reversed(_, _, _, _)
ConsumingIter_push_back_keys_reversed(ctx, stack, node, n) ==
    IF n = 0 THEN ConsumingIter_push_node(ctx, stack, Last(node.children))
    ELSE With(ConsumingIter_push_node(ctx, stack, Head(node.children)), LAMBDA p :
           ConsumingIter_push_back_keys_reversed(p.ctx,
               Append(p.stack, Yield(Last(node.keys))),
               [node EXCEPT !.children = Tail(@), !.keys = Front(@)], n - 1))

(* The loop of ConsumingIter::push_back with n iterations to go: the node  *)
(* is emptied from the front, the last child taken from the back.          *)
RECURSIVE ConsumingIter_push_back_from(_, _, _, _)
ConsumingIter_push_back_from(ctx, stack, node, n) ==
    IF n = 0 THEN ConsumingIter_push_node(ctx, stack, Last(node.children))
    ELSE With(ConsumingIter_push_node(ctx, stack, Head(node.children)), LAMBDA p :
           ConsumingIter_push_back_from(p.ctx, Append(p.stack, Yield(Head(node.keys))),
               [node EXCEPT !.children = Tail(@), !.keys = Tail(@)], n - 1))

ConsumingIter_push_back(ctx, stack, node) ==
    ConsumingIter_push_back_from(ctx, stack, node, Len(node.keys))

(* Vec::clear, and the drop of the iterator: every owned node is dropped. *)
RECURSIVE DropStack(_, _)
DropStack(ctx, stack) ==
    IF stack = <<>> THEN ctx
    ELSE DropStack(IF Head(stack).t = "Consider" THEN DropNode(ctx, Head(stack).n) ELSE ctx,
                   Tail(stack))

RECURSIVE ConsumingIter_next(_, _)
ConsumingIter_next(ctx, it) ==
    IF it.fwd_stack = <<>>
    THEN [ctx |-> ctx, it |-> [it EXCEPT !.remaining = 0], ret |-> <<>>]
    ELSE LET top == Last(it.fwd_stack)
         IN IF top.t = "Consider"
            THEN With(ConsumingIter_push(ctx, Front(it.fwd_stack), top.n), LAMBDA p :
                   ConsumingIter_next(p.ctx, [it EXCEPT !.fwd_stack = p.stack]))
            ELSE IF it.back_last # <<>> /\ cmp_values(top.v, it.back_last[1]) # "Less"
            THEN [ctx |-> DropStack(DropStack(ctx, it.fwd_stack), it.back_stack),
                  it |-> [it EXCEPT !.fwd_stack = <<>>, !.back_stack = <<>>,
                                    !.remaining = 0],
                  ret |-> <<>>]
            ELSE [ctx |-> ctx,
                  it |-> [it EXCEPT !.fwd_stack = Front(@),
                                    !.remaining = Decremented(@),
                                    !.fwd_last = <<top.v>>],
                  ret |-> <<top.v>>]

RECURSIVE ConsumingIter_next_back(_, _)
ConsumingIter_next_back(ctx, it) ==
    IF it.back_stack = <<>>
    THEN [ctx |-> ctx, it |-> [it EXCEPT !.remaining = 0], ret |-> <<>>]
    ELSE LET top == Last(it.back_stack)
         IN IF top.t = "Consider"
            THEN With(ConsumingIter_push_back(ctx, Front(it.back_stack), top.n), LAMBDA p :
                   ConsumingIter_next_back(p.ctx, [it EXCEPT !.back_stack = p.stack]))
            ELSE IF it.fwd_last # <<>> /\ cmp_values(top.v, it.fwd_last[1]) # "Greater"
            THEN [ctx |-> DropStack(DropStack(ctx, it.fwd_stack), it.back_stack),
                  it |-> [it EXCEPT !.fwd_stack = <<>>, !.back_stack = <<>>,
                                    !.remaining = 0],
                  ret |-> <<>>]
            ELSE [ctx |-> ctx,
                  it |-> [it EXCEPT !.back_stack = Front(@),
                                    !.remaining = Decremented(@),
                                    !.back_last = <<top.v>>],
                  ret |-> <<top.v>>]

---------------------------------------------------------------------------
(* A caller of the iterators.  A live Iter borrows the tree, so the owner  *)
(* does not act while an iterator is alive.                                *)
TreeVars == <<root, snap, snapObs, model, res, aborted, phase, script, ops>>

(* it.next() and it.next_back() for either kind of iterator. *)
CallNext(h, it) ==
    IF it.kind = "Iter" THEN [ctx |-> Ctx(h)] @@ Iter_next(h, it)
    ELSE ConsumingIter_next(Ctx(h), it)

CallNextBack(h, it) ==
    IF it.kind = "Iter" THEN [ctx |-> Ctx(h)] @@ Iter_next_back(h, it)
    ELSE ConsumingIter_next_back(Ctx(h), it)

IterNew(kind) ==
    /\ iter.kind = "none"
    /\ aborted = "none"
    /\ \E c \in {IF kind = "Iter" THEN [ctx |-> Ctx(heap), it |-> Iter_new(root)]
                 ELSE ConsumingIter_new(Ctx(heap), root)} :
         /\ iter' = c.it
         /\ heap' = c.ctx.h
    /\ seen' = [NoSeen EXCEPT !.call = "new", !.len = root.count]
    /\ UNCHANGED TreeVars

IterNext ==
    /\ iter.kind # "none"
    /\ \E r \in {CallNext(heap, iter)} :
         /\ iter' = r.it
         /\ heap' = r.ctx.h
         /\ seen' = [seen EXCEPT !.fwd = @ \o r.ret,
                                 !.fwd_none = @ \/ r.ret = <<>>,
                                 !.call = "next"]
    /\ UNCHANGED TreeVars

IterNextBack ==
    /\ iter.kind # "none"
    /\ \E r \in {CallNextBack(heap, iter)} :
         /\ iter' = r.it
         /\ heap' = r.ctx.h
         /\ seen' = [seen EXCEPT !.back = @ \o r.ret,
                                 !.back_none = @ \/ r.ret = <<>>,
                                 !.call = "next_back"]
    /\ UNCHANGED TreeVars

(* The iterator is dropped. *)
IterDrop ==
    /\ iter.kind # "none"
    /\ heap' = IF iter.kind = "Iter" THEN heap
               ELSE DropStack(DropStack(Ctx(heap), iter.fwd_stack), iter.back_stack).h
    /\ iter' = NoIter
    /\ seen' = NoSeen
    /\ UNCHANGED TreeVars

NextIter ==
    \/ BuildStep
    \/ \E kind \in {"Iter", "ConsumingIter"} : IterNew(kind)
    \/ IterNext
    \/ IterNextBack
    \/ IterDrop

SpecIter == Init /\ [][NextIter]_vars

---------------------------------------------------------------------------
(* Iteration *)
Reverse(s) == [i \in 1..Len(s) |-> s[Len(s) + 1 - i]]

IsPrefix(p, s) == Len(p) <= Len(s) /\ SubSeq(s, 1, Len(p)) = p

StrictlyIncreasing(s) ==
    \A i \in 1..(Len(s) - 1) : cmp_values(s[i], s[i + 1]) = "Less"

NeverCalledBack == seen.back = <<>> /\ ~seen.back_none

NeverCalledFwd == seen.fwd = <<>> /\ ~seen.fwd_none

(* C13: an Iter driven only by next yields the stored elements in strictly *)
(* increasing order, each exactly once, and then None; driven only by      *)
(* next_back it yields exactly the reverse sequence.                       *)
C13_IterOrder ==
    iter.kind = "Iter" =>
      /\ NeverCalledBack =>
           /\ IsPrefix(seen.fwd, InOrder(heap, root))
           /\ StrictlyIncreasing(seen.fwd)
           /\ seen.fwd_none => seen.fwd = InOrder(heap, root)
      /\ NeverCalledFwd =>
           /\ IsPrefix(seen.back, Reverse(InOrder(heap, root)))
           /\ seen.back_none => seen.back = Reverse(InOrder(heap, root))

C13_Witness ==
    /\ iter.kind = "Iter"
    /\ Height(heap, root) = 3
    /\ NeverCalledFwd
    /\ seen.back_none
    /\ Len(seen.back) = root.count

(* C14: under any interleaving of next and next_back on one Iter no        *)
(* element is yielded twice, and once both have returned None the values   *)
(* yielded from the front, followed by those yielded from the back in      *)
(* reverse, are exactly the stored elements.                               *)
C14_MeetInTheMiddle ==
    iter.kind = "Iter" =>
      /\ IsPrefix(seen.fwd, InOrder(heap, root))
      /\ IsPrefix(seen.back, Reverse(InOrder(heap, root)))
      /\ Len(seen.fwd) + Len(seen.back) <= root.count
      /\ seen.fwd_none /\ seen.back_none =>
           seen.fwd \o Reverse(seen.back) = InOrder(heap, root)

C14_Witness ==
    /\ iter.kind = "Iter"
    /\ Height(heap, root) = 3
    /\ seen.fwd_none /\ seen.back_none
    /\ Len(seen.fwd) >= 3 /\ Len(seen.back) >= 3

(* The number of values an iterator yields when it is drained by next, and *)
(* when it is drained by next_back.                                        *)
RECURSIVE StillToYield(_, _)
StillToYield(h, it) ==
    With(CallNext(h, it), LAMBDA r :
      IF r.ret = <<>> THEN 0 ELSE 1 + StillToYield(r.ctx.h, r.it))

RECURSIVE StillToYieldBack(_, _)
StillToYieldBack(h, it) ==
    With(CallNextBack(h, it), LAMBDA r :
      IF r.ret = <<>> THEN 0 ELSE 1 + StillToYieldBack(r.ctx.h, r.it))

(* C16: for Iter and ConsumingIter, remaining starts at root.count, is     *)
(* root.count less the number of values yielded so far, never underflows,  *)
(* is the number of values still to be yielded, and is what size_hint      *)
(* reports as lower and upper bound.                                       *)
C16_RemainingExact ==
    iter.kind # "none" =>
      /\ seen.call = "new" => iter.remaining = root.count
      /\ iter.remaining # Underflow
      /\ iter.remaining = root.count - Len(seen.fwd) - Len(seen.back)
      /\ iter.remaining = StillToYield(heap, iter)
      /\ iter.remaining = StillToYieldBack(heap, iter)
      /\ size_hint(iter) = <<StillToYield(heap, iter), <<StillToYield(heap, iter)>>>>

C16_Witness ==
    /\ iter.kind = "ConsumingIter"
    /\ Height(heap, root) = 3
    /\ seen.call = "next" /\ seen.fwd_none
    /\ Len(seen.fwd) >= 2 /\ Len(seen.back) >= 2
    /\ iter.remaining = 0

---------------------------------------------------------------------------
(* DiffIter: a lock-step traversal of two trees.  The old tree is read     *)
(* through the heap oh, the new tree through the heap nh.                  *)
Add(new) == [t |-> "Add", old |-> NoVal, new |-> new]

Update(old, new) == [t |-> "Update", old |-> old, new |-> new]

Remove(old) == [t |-> "Remove", old |-> old, new |-> NoVal]

(* keys[0] of a node without keys: an index out of bounds. *)
IndexPanic == [t |-> "Panic", old |-> NoVal, new |-> NoVal]

(* Faulty variant: a root without keys is put on its stack as well. *)
DiffIter_new_unguarded(old, new) ==
    [old_stack |-> <<Consider(old)>>, new_stack |-> <<Consider(new)>>]

DiffIter_new(old, new) ==
    [old_stack |-> IF old.keys = <<>> THEN <<>> ELSE <<Consider(old)>>,
     new_stack |-> IF new.keys = <<>> THEN <<>> ELSE <<Consider(new)>>]

(* Faulty variant of the arm for two values: values that compare Equal are *)
(* passed over without looking at their payloads.                          *)
YieldYieldByKey(d, old, new) ==
    IF cmp_values(old, new) = "Less"
    THEN [d |-> [d EXCEPT !.new_stack = Append(@, Yield(new))],
          ret |-> <<Remove(old)>>, again |-> FALSE]
    ELSE IF cmp_values(old, new) = "Equal"
    THEN [d |-> d, ret |-> <<>>, again |-> TRUE]
    ELSE [d |-> [d EXCEPT !.old_stack = Append(@, Yield(old))],
          ret |-> <<Add(new)>>, again |-> FALSE]

(* Faulty variant of the arm for two values: when old is Less the new value *)
(* is reported as added and the old value is kept for later.               *)
YieldYieldOutOfOrder(d, old, new) ==
    IF cmp_values(old, new) = "Less"
    THEN [d |-> [d EXCEPT !.old_stack = Append(@, Yield(old))],
          ret |-> <<Add(new)>>, again |-> FALSE]
    ELSE IF cmp_values(old, new) = "Equal"
    THEN IF old # new
         THEN [d |-> d, ret |-> <<Update(old, new)>>, again |-> FALSE]
         ELSE [d |-> d, ret |-> <<>>, again |-> TRUE]
    ELSE [d |-> [d EXCEPT !.old_stack = Append(@, Yield(old))],
          ret |-> <<Add(new)>>, again |-> FALSE]

(* The arm (Yield(old), Yield(new)) of DiffIter::next, both values popped: *)
(* the iterator, what is returned, and whether the loop goes on.           *)
YieldYield(d, old, new) ==
    IF cmp_values(old, new) = "Less"
    THEN [d |-> [d EXCEPT !.new_stack = Append(@, Yield(new))],
          ret |-> <<Remove(old)>>, again |-> FALSE]
    ELSE IF cmp_values(old, new) = "Equal"
    THEN IF old # new
         THEN [d |-> d, ret |-> <<Update(old, new)>>, again |-> FALSE]
         ELSE [d |-> d, ret |-> <<>>, again |-> TRUE]
    ELSE [d |-> [d EXCEPT !.old_stack = Append(@, Yield(old))],
          ret |-> <<Add(new)>>, again |-> FALSE]

(* Faulty variant of the arm for two nodes: nodes whose first keys compare  *)
(* Equal are taken to hold the same elements and are passed over.          *)
ConsiderConsiderByFirstKey(oh, nh, d, old, new) ==
    IF old.keys = <<>> \/ new.keys = <<>>
    THEN [d |-> d, ret |-> <<IndexPanic>>, again |-> FALSE]
    ELSE IF cmp_values(At(old.keys, 0), At(new.keys, 0)) = "Less"
    THEN [d |-> [d EXCEPT !.old_stack = Iter_push(oh, @, old),
                          !.new_stack = Append(@, Consider(new))],
          ret |-> <<>>, again |-> TRUE]
    ELSE IF cmp_values(At(old.keys, 0), At(new.keys, 0)) = "Greater"
    THEN [d |-> [d EXCEPT !.old_stack = Append(@, Consider(old)),
                          !.new_stack = Iter_push(nh, @, new)],
          ret |-> <<>>, again |-> TRUE]
    ELSE [d |-> d, ret |-> <<>>, again |-> TRUE]

(* The arm (Consider(old), Consider(new)), both nodes popped. *)
ConsiderConsider(oh, nh, d, old, new) ==
    IF old.keys = <<>> \/ new.keys = <<>>
    THEN [d |-> d, ret |-> <<IndexPanic>>, again |-> FALSE]
    ELSE IF cmp_values(At(old.keys, 0), At(new.keys, 0)) = "Less"
    THEN [d |-> [d EXCEPT !.old_stack = Iter_push(oh, @, old),
                          !.new_stack = Append(@, Consider(new))],
          ret |-> <<>>, again |-> TRUE]
    ELSE IF cmp_values(At(old.keys, 0), At(new.keys, 0)) = "Greater"
    THEN [d |-> [d EXCEPT !.old_stack = Append(@, Consider(old)),
                          !.new_stack = Iter_push(nh, @, new)],
          ret |-> <<>>, again |-> TRUE]
    ELSE [d |-> [d EXCEPT !.old_stack = Iter_push(oh, @, old),
                          !.new_stack = Iter_push(nh, @, new)],
          ret |-> <<>>, again |-> TRUE]

(* One turn of the loop of DiffIter::next. *)
DiffIter_turn(oh, nh, d) ==
    IF d.old_stack = <<>> /\ d.new_stack = <<>>
    THEN [d |-> d, ret |-> <<>>, again |-> FALSE]
    ELSE IF d.old_stack = <<>>
    THEN LET new == Last(d.new_stack)
         IN IF new.t = "Consider"
            THEN [d |-> [d EXCEPT !.new_stack = Iter_push(nh, Front(@), new.n)],
                  ret |-> <<>>, again |-> TRUE]
            ELSE [d |-> [d EXCEPT !.new_stack = Front(@)],
                  ret |-> <<Add(new.v)>>, again |-> FALSE]
    ELSE IF d.new_stack = <<>>
    THEN LET old == Last(d.old_stack)
         IN IF old.t = "Consider"
            THEN [d |-> [d EXCEPT !.old_stack = Iter_push(oh, Front(@), old.n)],
                  ret |-> <<>>, again |-> TRUE]
            ELSE [d |-> [d EXCEPT !.old_stack = Front(@)],
                  ret |-> <<Remove(old.v)>>, again |-> FALSE]
    ELSE LET old == Last(d.old_stack)
             new == Last(d.new_stack)
             popped == [old_stack |-> Front(d.old_stack), new_stack |-> Front(d.new_stack)]
         IN IF old.t = "Consider" /\ new.t = "Consider"
            THEN ConsiderConsider(oh, nh, popped, old.n, new.n)
            ELSE IF old.t = "Consider"
            THEN [d |-> [popped EXCEPT !.old_stack = Iter_push(oh, @, old.n),
                                       !.new_stack = Append(@, Yield(new.v))],
                  ret |-> <<>>, again |-> TRUE]
            ELSE IF new.t = "Consider"
            THEN [d |-> [popped EXCEPT !.old_stack = Append(@, Yield(old.v)),
                                       !.new_stack = Iter_push(nh, @, new.n)],
                  ret |-> <<>>, again |-> TRUE]
            ELSE YieldYield(popped, old.v, new.v)

(* Iterator::next for DiffIter: the iterator after the call, what it       *)
(* returned, and the number of turns of the loop.                          *)
RECURSIVE DiffIter_next(_, _, _)
DiffIter_next(oh, nh, d) ==
    With(DiffIter_turn(oh, nh, d), LAMBDA r :
      IF r.again
      THEN With(DiffIter_next(oh, nh, r.d), LAMBDA rest :
             [rest EXCEPT !.turns = @ + 1])
      ELSE [d |-> r.d, ret |-> r.ret, turns |-> 1])

(* The events of a DiffIter called until it returns None. *)
RECURSIVE DiffEvents(_, _, _)
DiffEvents(oh, nh, d) ==
    With(DiffIter_next(oh, nh, d), LAMBDA r :
      IF r.ret = <<>> \/ r.ret = <<IndexPanic>> THEN r.ret
      ELSE r.ret \o DiffEvents(oh, nh, r.d))

Diff(oh, old, nh, new) == DiffEvents(oh, nh, DiffIter_new(old, new))

(* The tree a scripted history builds from the empty tree: k > 0 inserts   *)
(* key k with payload v, k < 0 removes key -k.                             *)
RECURSIVE BuiltFrom(_, _, _)
BuiltFrom(t, s, v) ==
    IF s = <<>> THEN t
    ELSE IF Head(s) > 0
    THEN With(owner_insert(t.h, t.root, <<Head(s), v>>), LAMBDA r :
           BuiltFrom([h |-> r.h, root |-> r.root], Tail(s), v))
    ELSE With(owner_remove(t.h, t.root, -Head(s)), LAMBDA r :
           BuiltFrom([h |-> r.h, root |-> r.root], Tail(s), v))

Built(s, v) == BuiltFrom([h |-> <<>>, root |-> Default], s, v)

(* Trees to compare the owner's tree with: empty, a single leaf, and trees  *)
(* of height 2 and 3 with other payloads, other keys and another history.  *)
RefLen == 12

Others ==
    << Built(<<>>, 1),
       Built(<<3, 1>>, 2),
       Built([i \in 1..RefLen |-> RefLen + 1 - i], 2),
       Built([i \in 1..RefLen |-> 2 * i] \o <<-4, -8, -6>>, 1),
       Built(Ascending \o <<-5, -6, -14>>, 1) >>

(* The elements of a tree, and the contents after an event is applied. *)
Elements(h, node) ==
    With(InOrder(h, node), LAMBDA s : {s[i] : i \in 1..Len(s)})

RECURSIVE Applied(_, _)
Applied(S, events) ==
    IF events = <<>> THEN S
    ELSE Applied(IF Head(events).t = "Add" THEN S \cup {Head(events).new}
                 ELSE IF Head(events).t = "Remove" THEN S \ {Head(events).old}
                 ELSE IF Head(events).t = "Update"
                 THEN (S \ {Head(events).old}) \cup {Head(events).new}
                 ELSE {},
                 Tail(events))

(* The events of DiffIter(old, new) turn old's contents into new's, and    *)
(* name no element that both trees hold.                                   *)
DiffReproduces(oh, old, nh, new) ==
    With(Diff(oh, old, nh, new), LAMBDA events :
    With(Elements(oh, old), LAMBDA was :
    With(Elements(nh, new), LAMBDA is :
      /\ \A i \in 1..Len(events) : events[i].t \in {"Add", "Remove", "Update"}
      /\ Applied(was, events) = is
      /\ \A i \in 1..Len(events) :
           events[i].old \notin was \cap is /\ events[i].new \notin was \cap is)))

(* C15: applying the events of DiffIter(old, new) to the contents of old   *)
(* gives exactly the contents of new, and an element equal in both trees   *)
(* produces no event: for the owner's tree against its clone, and against  *)
(* each of the other trees, in both directions.                            *)
C15_DiffReproducesNew ==
    /\ snap # <<>> =>
         /\ DiffReproduces(heap, snap[1], heap, root)
         /\ DiffReproduces(heap, root, heap, snap[1])
    /\ \A i \in 1..Len(Others) :
         /\ DiffReproduces(Others[i].h, Others[i].root, heap, root)
         /\ DiffReproduces(heap, root, Others[i].h, Others[i].root)

C15_Witness ==
    /\ Height(heap, root) = 3
    /\ \E i \in 1..Len(Others) :
         With(Diff(Others[i].h, Others[i].root, heap, root), LAMBDA events :
           /\ Height(Others[i].h, Others[i].root) = 3
           /\ \E a, b, c \in 1..Len(events) :
                events[a].t = "Add" /\ events[b].t = "Remove" /\ events[c].t = "Update")

---------------------------------------------------------------------------
(* The keys of a tree of height 2, node by node: the root's, then each     *)
(* leaf's.                                                                 *)
KeyList(keys) == [i \in 1..Len(keys) |-> KeyOf(keys[i])]

TwoLevels(h, node) ==
    <<KeyList(node.keys)>> \o
    [i \in 1..Len(node.children) |->
       IF node.children[i] = None THEN <<>> ELSE KeyList(h[node.children[i]].node.keys)]

(* The tree that the inserts of 1, 2, 3, 4, 5 build: root [3] over the     *)
(* leaves [1, 2] and [4, 5].                                               *)
OneToFive ==
    /\ Height(heap, root) = 2
    /\ TwoLevels(heap, root) = <<<<3>>, <<1, 2>>, <<4, 5>>>>

(* C17 as stated: on the tree of 1..5, remove(4) goes through MergeFirst   *)
(* and leaves the single leaf [1, 2, 3, 5], of depth 1 and len 4.          *)
C17_RemoveFourMerges ==
    OneToFive =>
      /\ remove_action(Ctx(heap), root, search_key(root.keys, 4)).a = "MergeFirst"
      /\ With(owner_remove(heap, root, 4), LAMBDA b :
           /\ Height(b.h, b.root) = 1
           /\ KeyList(b.root.keys) = <<1, 2, 3, 5>>
           /\ b.root.count = 4)

(* C17 as amended: the leaf [4, 5] holds MEDIAN keys and is not too small, *)
(* so remove(4) goes through ContinueDown and DeleteAt, returns Removed,   *)
(* and leaves root [3] over the leaves [1, 2] and [5]: depth 2, len 4.     *)
C17_RemoveFourDescends ==
    OneToFive =>
      /\ remove_action(Ctx(heap), root, search_key(root.keys, 4)).a = "ContinueDown"
      /\ With(owner_remove(heap, root, 4), LAMBDA b :
           /\ b.res.tag = "Removed" /\ KeyOf(b.res.val) = 4
           /\ Height(b.h, b.root) = 2
           /\ TwoLevels(b.h, b.root) = <<<<3>>, <<1, 2>>, <<5>>>>
           /\ b.root.count = 4)

C17_Witness ==
    /\ phase = "free"
    /\ res.op = "remove" /\ res.tag = "Removed" /\ res.act = "ContinueDown"
    /\ Height(heap, root) = 2
    /\ TwoLevels(heap, root) = <<<<3>>, <<1, 2>>, <<5>>>>
    /\ model[4] = 0

---------------------------------------------------------------------------
(* Structural sharing.  The nodes of a tree by address, each with the      *)
(* subtree it holds.                                                       *)
NodesOf(h, node) ==
    With(Reach(h, node.children, <<>>), LAMBDA live :
      {[id |-> live[i], tree |-> Tree(h, h[live[i]].node)] : i \in 1..Len(live)})

(* No node was copied without being modified: a node of the tree after the *)
(* operation that holds the same subtree as a node of the tree before it   *)
(* is that same node, at the same address.                                 *)
OnlyModifiedCloned(before, after) ==
    \A a \in before, b \in after : a.tree = b.tree => a.id = b.id

(* C18: while a clone of the tree is alive, an insert or a remove leaves   *)
(* every node it does not modify at its address, shared with the clone,    *)
(* and a remove that returns NoChange clones no node.                      *)
C18_ClonesOnlyModifiedPath ==
    snap # <<>> =>
      With(NodesOf(heap, root), LAMBDA before :
        /\ \A k \in ActKeys, v \in Vals :
             lookup(heap, root, k) # <<<<k, v>>>> =>
               With(owner_insert(heap, root, <<k, v>>), LAMBDA r :
                 OnlyModifiedCloned(before, NodesOf(r.h, r.root)))
        /\ \A k \in ActKeys :
             With(owner_remove(heap, root, k), LAMBDA r :
               r.res.tag # "Abort" =>
                 /\ OnlyModifiedCloned(before, NodesOf(r.h, r.root))
                 /\ r.res.tag = "NoChange" => r.ctx.nc = 0))

---------------------------------------------------------------------------
(* Node::min and Node::max.  first() / last() of a children chunk without  *)
(* slots is unwrapped: a panic, written Unwrapped.                         *)
Unwrapped == <<(-1), (-1)>>

(* Faulty variant: the first key of the node itself, without descending. *)
min_at_node(h, node) ==
    IF node.keys = <<>> THEN <<>> ELSE <<Head(node.keys)>>

RECURSIVE min(_, _)
min(h, node) ==
    IF node.children = <<>> THEN <<Unwrapped>>
    ELSE IF Head(node.children) = None
    THEN IF node.keys = <<>> THEN <<>> ELSE <<Head(node.keys)>>
    ELSE min(h, h[Head(node.children)].node)

RECURSIVE max(_, _)
max(h, node) ==
    IF node.children = <<>> THEN <<Unwrapped>>
    ELSE IF Last(node.children) = None
    THEN IF node.keys = <<>> THEN <<>> ELSE <<Last(node.keys)>>
    ELSE max(h, h[Last(node.children)].node)

(* C19: min() is the smallest stored element and the first that a forward  *)
(* iteration yields, max() the largest and the first that a backward       *)
(* iteration yields, and each is None exactly when the tree is empty.      *)
C19_MinMax ==
    With(InOrder(heap, root), LAMBDA all :
      /\ min(heap, root) = <<>> <=> all = <<>>
      /\ max(heap, root) = <<>> <=> all = <<>>
      /\ min(heap, root) = Iter_next(heap, Iter_new(root)).ret
      /\ max(heap, root) = Iter_next_back(heap, Iter_new(root)).ret
      /\ all # <<>> =>
           /\ min(heap, root) = <<Head(all)>>
           /\ max(heap, root) = <<Last(all)>>
           /\ \A j \in 1..Len(all) :
                /\ cmp_values(min(heap, root)[1], all[j]) # "Greater"
                /\ cmp_values(max(heap, root)[1], all[j]) # "Less")

C19_Witness ==
    /\ Height(heap, root) = 3
    /\ res.op = "remove" /\ res.tag = "Removed"
    /\ min(heap, root) # <<>> /\ KeyOf(min(heap, root)[1]) > 1
    /\ max(heap, root) # <<>> /\ KeyOf(max(heap, root)[1]) < ScriptLen

---------------------------------------------------------------------------
(* C20: capacity is never exceeded, not even inside an operation: every    *)
(* node holds at most NODE_SIZE keys and NODE_SIZE + 1 child slots, and no *)
(* insert or remove pushes onto a full chunk.                              *)
C20_CapacityNeverExceeded ==
    /\ \A n \in TreeNodes :
         Len(n.keys) <= NODE_SIZE /\ Len(n.children) <= NODE_SIZE + 1
    /\ aborted # "chunk_full"

---------------------------------------------------------------------------
(* Split.  The nodes that insert(value) is called on, from the root down:  *)
(* the node itself and, when the key is not in it, the child it passes the *)
(* value to.                                                               *)
RECURSIVE InsertPath(_, _, _)
InsertPath(h, node, key) ==
    {node} \cup
    (IF node.keys = <<>> THEN {}
     ELSE With(search_key(node.keys, key), LAMBDA sr :
            IF sr.ok \/ At(node.children, sr.index) = None THEN {}
            ELSE InsertPath(h, h[At(node.children, sr.index)].node, key)))

(* The sum of the counts of the nodes behind a list of child slots. *)
RECURSIVE CountsBelow(_, _)
CountsBelow(h, children) ==
    IF children = <<>> THEN 0
    ELSE (IF Head(children) = None THEN 0 ELSE h[Head(children)].node.count)
         + CountsBelow(h, Tail(children))

HalfOk(h, half) ==
    /\ Len(half.keys) = MEDIAN
    /\ Len(half.children) = MEDIAN + 1
    /\ half.count = MEDIAN + CountsBelow(h, half.children)
    /\ half.count = Len(InOrder(h, half))

(* C21: whenever insert on a node of the tree returns Split(l, m, r), the  *)
(* node held NODE_SIZE keys, and l and r each hold MEDIAN keys, MEDIAN + 1 *)
(* children, and a count of MEDIAN plus their children's counts.           *)
C21_SplitHalves ==
    \A k \in AllKeys, v \in Vals :
      \A n \in InsertPath(heap, root, k) :
        With(insert(Ctx(heap), n, <<k, v>>), LAMBDA r :
          r.res.tag = "Split" =>
            /\ Len(n.keys) = NODE_SIZE
            /\ HalfOk(r.ctx.h, r.res.left)
            /\ HalfOk(r.ctx.h, r.res.right))

C21_Witness ==
    /\ res.op = "insert" /\ res.tag = "Split"
    /\ Height(heap, root) = 3
    /\ Len(root.keys) = 1
    /\ \A i \in 1..Len(root.children) :
         /\ Len(heap[root.children[i]].node.keys) = MEDIAN
         /\ Len(heap[root.children[i]].node.children) = MEDIAN + 1

(* What insert(value) on a full node hands to split: the value itself and  *)
(* no children at a leaf slot, the Split of the child below otherwise.     *)
Incoming(h, n, value) ==
    With(At(n.children, search_value(n.keys, value).index), LAMBDA child :
      IF child = None
      THEN [val |-> value, left |-> <<>>, right |-> <<>>]
      ELSE With(insert(Ctx(h), h[child].node, value), LAMBDA below :
             [val |-> below.res.val,
              left |-> <<Tree(below.ctx.h, below.res.left)>>,
              right |-> <<Tree(below.ctx.h, below.res.right)>>]))

SubtreeAt(h, id) == IF id = None THEN <<>> ELSE <<Tree(h, h[id].node)>>

(* Split(l, m, r) of node n for a value that belongs at index i partitions *)
(* n's keys and the incoming value.                                        *)
Partitioned(h, n, value, i, r) ==
    With(r.res.left.keys \o <<r.res.val>> \o r.res.right.keys, LAMBDA keys :
    With(r.res.left.children \o r.res.right.children, LAMBDA children :
    With(Incoming(h, n, value), LAMBDA in :
      /\ keys = InsertAt(n.keys, i, in.val)
      /\ \A j \in 1..Len(r.res.left.keys) :
           cmp_values(r.res.left.keys[j], r.res.val) = "Less"
      /\ \A j \in 1..Len(r.res.right.keys) :
           cmp_values(r.res.right.keys[j], r.res.val) = "Greater"
      /\ r.res.val = IF i < MEDIAN THEN At(n.keys, MEDIAN - 1)
                     ELSE IF i > MEDIAN THEN At(n.keys, MEDIAN)
                     ELSE in.val
      /\ Len(children) = NODE_SIZE + 2
      /\ SubtreeAt(r.ctx.h, At(children, i)) = in.left
      /\ SubtreeAt(r.ctx.h, At(children, i + 1)) = in.right
      /\ \A j \in 0..(NODE_SIZE + 1) :
           j < i => SubtreeAt(r.ctx.h, At(children, j)) = SubtreeAt(h, At(n.children, j))
      /\ \A j \in 0..(NODE_SIZE + 1) :
           j > i + 1 =>
             SubtreeAt(r.ctx.h, At(children, j)) = SubtreeAt(h, At(n.children, j - 1)))))

(* C22: a Split partitions the node's NODE_SIZE keys and the incoming      *)
(* value: left, median, right are the old keys with the value at its       *)
(* index i, left below the median and right above it; the median is the    *)
(* old key MEDIAN - 1 for i < MEDIAN, the old key MEDIAN for i > MEDIAN,   *)
(* the value for i = MEDIAN; the incoming children sit around the value.   *)
C22_SplitPartitions ==
    \A k \in AllKeys, v \in Vals :
      \A n \in InsertPath(heap, root, k) :
        With(insert(Ctx(heap), n, <<k, v>>), LAMBDA r :
          r.res.tag = "Split" =>
            Partitioned(heap, n, <<k, v>>, search_key(n.keys, k).index, r))

(* An internal node splits around a median that came up from its child. *)
C22_Witness ==
    \E k \in AllKeys :
      /\ ~is_leaf(root)
      /\ search_key(root.keys, k).index = MEDIAN
      /\ insert(Ctx(heap), root, <<k, 1>>).res.tag = "Split"

---------------------------------------------------------------------------
(* A sequence of elements without the element of a key. *)
Without(s, key) == SelectSeq(s, LAMBDA e : KeyOf(e) # key)

(* C23: remove returns Update(old, n) only from the call on the root, when *)
(* the root held one key and its two children were merged; no call on a    *)
(* node below returns Update; n holds the tree's elements without the      *)
(* removed one and is one level lower than the tree.                       *)
C23_UpdateOnlyAtDepletedRoot ==
    \A k \in AllKeys :
      With(remove(Ctx(heap), root, k), LAMBDA r :
        IF r.res.tag = "Update"
        THEN /\ Len(root.keys) = 1
             /\ remove_action(Ctx(heap), root, search_key(root.keys, k)).a
                  \in {"Merge", "MergeFirst"}
             /\ r.self.keys = <<>>
             /\ r.ctx.up = 1
             /\ KeyOf(r.res.val) = k
             /\ InOrder(r.ctx.h, r.res.left) = Without(InOrder(heap, root), k)
             /\ Height(r.ctx.h, r.res.left) = Height(heap, root) - 1
        ELSE r.ctx.up = 0)

C23_Witness ==
    /\ res.op = "remove" /\ res.tag = "Update" /\ res.act = "MergeFirst"
    /\ Height(heap, root) = 2
    /\ root.count >= NODE_SIZE

---------------------------------------------------------------------------
(* The Iter that stands where a ConsumingIter stands: the same stacks,     *)
(* read as borrowed nodes and values.                                      *)
AsIter(it) == [it EXCEPT !.kind = "Iter"]

(* C24: a ConsumingIter and an Iter on the same tree, given the same calls *)
(* of next and next_back, return the same values and the same None: they   *)
(* start alike, and from every state a ConsumingIter reaches, each call    *)
(* returns what the call on the corresponding Iter returns and leads to    *)
(* the corresponding state.                                                *)
C24_ConsumingIterAsIter ==
    iter.kind = "ConsumingIter" =>
      /\ seen.call = "new" => AsIter(iter) = Iter_new(root)
      /\ With(CallNext(heap, iter), LAMBDA c :
         With(Iter_next(heap, AsIter(iter)), LAMBDA b :
           c.ret = b.ret /\ AsIter(c.it) = b.it))
      /\ With(CallNextBack(heap, iter), LAMBDA c :
         With(Iter_next_back(heap, AsIter(iter)), LAMBDA b :
           c.ret = b.ret /\ AsIter(c.it) = b.it))

C24_Witness ==
    /\ iter.kind = "ConsumingIter"
    /\ Height(heap, root) = 3
    /\ seen.call = "next_back" /\ seen.back_none /\ ~seen.fwd_none
    /\ Len(seen.fwd) >= 3 /\ Len(seen.back) >= 3

---------------------------------------------------------------------------
(* Two sorted sequences of values compared key by key: the events that     *)
(* take the first to the second, in key order.                             *)
RECURSIVE Changes(_, _)
Changes(was, is) ==
    IF was = <<>> /\ is = <<>> THEN <<>>
    ELSE IF was = <<>> THEN <<Add(Head(is))>> \o Changes(was, Tail(is))
    ELSE IF is = <<>> THEN <<Remove(Head(was))>> \o Changes(Tail(was), is)
    ELSE IF cmp_values(Head(was), Head(is)) = "Less"
    THEN <<Remove(Head(was))>> \o Changes(Tail(was), is)
    ELSE IF cmp_values(Head(was), Head(is)) = "Greater"
    THEN <<Add(Head(is))>> \o Changes(was, Tail(is))
    ELSE IF Head(was) # Head(is)
    THEN <<Update(Head(was), Head(is))>> \o Changes(Tail(was), Tail(is))
    ELSE Changes(Tail(was), Tail(is))

(* The events of DiffIter(old, new) come in strictly increasing key order, *)
(* and are the Remove, Add and Update the two contents call for.           *)
DiffOrdered(oh, old, nh, new) ==
    With(Diff(oh, old, nh, new), LAMBDA events :
      /\ StrictlyIncreasing([i \in 1..Len(events) |->
             IF events[i].t = "Remove" THEN events[i].old ELSE events[i].new])
      /\ events = Changes(InOrder(oh, old), InOrder(nh, new)))

(* C25: DiffIter yields its events in strictly increasing key order, one   *)
(* per key at most: Remove for a key only in old, Add for a key only in    *)
(* new, Update for a key in both with unequal values; old = {1,2,3,4,5}    *)
(* and new = {1,2,3,5,6} give Remove(4), Add(6).  For the owner's tree     *)
(* against its clone and against each of the other trees, both ways.       *)
C25_DiffInKeyOrder ==
    /\ snap # <<>> =>
         /\ DiffOrdered(heap, snap[1], heap, root)
         /\ DiffOrdered(heap, root, heap, snap[1])
    /\ \A i \in 1..Len(Others) :
         /\ DiffOrdered(Others[i].h, Others[i].root, heap, root)
         /\ DiffOrdered(heap, root, Others[i].h, Others[i].root)
    /\ InOrder(heap, root) = [i \in 1..5 |-> <<i, 1>>] =>
         With(Built(<<1, 2, 3, 5, 6>>, 1), LAMBDA new :
           Diff(heap, root, new.h, new.root) = <<Remove(<<4, 1>>), Add(<<6, 1>>)>>)

C25_Witness ==
    /\ Height(heap, root) = 3
    /\ \E i \in 1..Len(Others) :
         With(Diff(heap, root, Others[i].h, Others[i].root), LAMBDA events :
           /\ Len(events) >= 6
           /\ \E a, b, c \in 1..Len(events) :
                /\ a < b /\ b < c
                /\ events[a].t = "Update" /\ events[b].t = "Remove"
                /\ events[c].t = "Add")

---------------------------------------------------------------------------
(* C26: Iter and ConsumingIter are fused.  Once next or next_back has      *)
(* returned None, remaining is 0, and a call of next and a call of         *)
(* next_back each return None and leave remaining at 0; the empty tree     *)
(* included.                                                               *)
C26_Fused ==
    iter.kind # "none" /\ (seen.fwd_none \/ seen.back_none) =>
      /\ iter.remaining = 0
      /\ With(CallNext(heap, iter), LAMBDA r :
           r.ret = <<>> /\ r.it.remaining = 0)
      /\ With(CallNextBack(heap, iter), LAMBDA r :
           r.ret = <<>> /\ r.it.remaining = 0)

C26_Witness ==
    /\ iter.kind = "Iter"
    /\ Height(heap, root) = 3
    /\ seen.fwd_none /\ seen.back_none
    /\ seen.fwd # <<>> /\ seen.back # <<>>
    /\ Len(seen.fwd) + Len(seen.back) = root.count

---------------------------------------------------------------------------
(* The tree that inserting the given values one after another builds from  *)
(* the tree t.                                                             *)
RECURSIVE InsertedAll(_, _)
InsertedAll(t, values) ==
    IF values = <<>> THEN t
    ELSE With(owner_insert(t.h, t.root, Head(values)), LAMBDA r :
           InsertedAll([h |-> r.h, root |-> r.root], Tail(values)))

(* Trees with the elements of a tree and another history: its elements     *)
(* inserted into the empty tree in ascending and in descending order.      *)
Reshaped(h, node) ==
    With(InOrder(h, node), LAMBDA s :
      << InsertedAll([h |-> <<>>, root |-> Default], s),
         InsertedAll([h |-> <<>>, root |-> Default], Reverse(s)) >>)

(* The nodes of a tree as the keys they hold, level by level. *)
RECURSIVE Shape(_, _)
Shape(h, node) ==
    <<KeyList(node.keys)>>
      \o [i \in 1..Len(node.children) |->
            IF node.children[i] = None THEN <<>>
            ELSE Shape(h, h[node.children[i]].node)]

(* C27: the events of DiffIter(old, new) depend on the elements of old and *)
(* new only, not on the nodes that hold them: the owner's tree and a tree  *)
(* with the same elements built by another history diff to nothing, either *)
(* way round, and one may stand for the other, as old or as new, against   *)
(* each of the other trees.                                                *)
C27_DiffIgnoresShape ==
    With(Reshaped(heap, root), LAMBDA same :
      \A j \in 1..Len(same) :
        /\ Diff(heap, root, same[j].h, same[j].root) = <<>>
        /\ Diff(same[j].h, same[j].root, heap, root) = <<>>
        /\ \A i \in 1..Len(Others) :
             /\ Diff(same[j].h, same[j].root, Others[i].h, Others[i].root)
                  = Diff(heap, root, Others[i].h, Others[i].root)
             /\ Diff(Others[i].h, Others[i].root, same[j].h, same[j].root)
                  = Diff(Others[i].h, Others[i].root, heap, root))

C27_Witness ==
    With(Reshaped(heap, root), LAMBDA same :
      /\ Height(heap, root) = 3
      /\ Height(same[1].h, same[1].root) = 2
      /\ Shape(same[2].h, same[2].root) # Shape(heap, root)
      /\ Shape(same[2].h, same[2].root) # Shape(same[1].h, same[1].root)
      /\ \E i \in 1..Len(Others) :
           Len(Diff(heap, root, Others[i].h, Others[i].root)) >= 3)

---------------------------------------------------------------------------
RECURSIVE Sum(_)
Sum(ns) == IF ns = <<>> THEN 0 ELSE Head(ns) + Sum(Tail(ns))

(* The items a node brings to a stack before it is used up: the node, its  *)
(* keys, and what its children bring.                                      *)
RECURSIVE ItemsIn(_, _)
ItemsIn(h, node) ==
    1 + Len(node.keys)
      + Sum([i \in 1..Len(node.children) |->
               IF node.children[i] = None THEN 0
               ELSE ItemsIn(h, h[node.children[i]].node)])

(* The items a work stack still has to hand out. *)
Work(h, stack) ==
    Sum([i \in 1..Len(stack) |->
           IF stack[i].t = "Consider" THEN ItemsIn(h, stack[i].n) ELSE 1])

(* The calls of DiffIter::next up to the first that returns no event: for  *)
(* each the work before and after, the turns of the loop and the result.   *)
RECURSIVE DiffCalls(_, _, _)
DiffCalls(oh, nh, d) ==
    With(DiffIter_next(oh, nh, d), LAMBDA r :
      << [before |-> Work(oh, d.old_stack) + Work(nh, d.new_stack),
          after |-> Work(oh, r.d.old_stack) + Work(nh, r.d.new_stack),
          turns |-> r.turns, ret |-> r.ret, d |-> r.d] >>
        \o (IF r.ret = <<>> \/ r.ret = <<IndexPanic>> THEN <<>>
            ELSE DiffCalls(oh, nh, r.d)))

(* Every call returns within as many turns as it uses up items (one more   *)
(* for the call that finds both stacks empty), the last call returns None  *)
(* and so does the call after it, and the events before it are no more     *)
(* than the elements of both trees.                                        *)
DiffTerminates(oh, old, nh, new) ==
    With(DiffCalls(oh, nh, DiffIter_new(old, new)), LAMBDA calls :
      /\ \A i \in 1..Len(calls) :
           /\ calls[i].turns >= 1
           /\ calls[i].turns + calls[i].after <= calls[i].before + 1
           /\ calls[i].ret # <<>> => calls[i].turns + calls[i].after <= calls[i].before
      /\ Last(calls).ret = <<>>
      /\ Last(calls).after = 0
      /\ DiffIter_next(oh, nh, Last(calls).d).ret = <<>>
      /\ Len(calls) - 1 <= Len(InOrder(oh, old)) + Len(InOrder(nh, new)))

(* C28: every call of DiffIter::next returns after a number of turns of    *)
(* its loop bounded by the items left on the two stacks, and None comes    *)
(* after at most |old| + |new| events: for the owner's tree against its    *)
(* clone and against each of the other trees, both ways.                   *)
C28_DiffNextTerminates ==
    /\ snap # <<>> =>
         /\ DiffTerminates(heap, snap[1], heap, root)
         /\ DiffTerminates(heap, root, heap, snap[1])
    /\ \A i \in 1..Len(Others) :
         /\ DiffTerminates(Others[i].h, Others[i].root, heap, root)
         /\ DiffTerminates(heap, root, Others[i].h, Others[i].root)

C28_Witness ==
    /\ Height(heap, root) = 3
    /\ \E i \in 1..Len(Others) :
         With(DiffCalls(Others[i].h, heap, DiffIter_new(Others[i].root, root)),
              LAMBDA calls :
                /\ Len(calls) - 1 = Len(InOrder(Others[i].h, Others[i].root))
                                      + Len(InOrder(heap, root))
                /\ Len(calls) > 2 * NODE_SIZE)
    /\ \E i \in 1..Len(Others) :
         With(DiffCalls(heap, Others[i].h, DiffIter_new(root, Others[i].root)),
              LAMBDA calls :
                /\ Height(Others[i].h, Others[i].root) = 3
                /\ \E c \in 1..Len(calls) : calls[c].turns >= 4 /\ calls[c].ret # <<>>)

=============================================================================
